---- MODULE Spec2Model ----
(***************************************************************************)
(* Model of zstd-seekable-s3: the pull-driven stream adapters              *)
(*   UploadParts (src/src/upload_s3.rs)  - regroups a stream of byte       *)
(*       chunks into upload-part requests of a minimum size;               *)
(*   Compress    (src/src/compress.rs)   - feeds a stream of byte chunks   *)
(*       to a seekable zstd compression session and emits its output;      *)
(* and the reader                                                          *)
(*   SeekableDecompress (src/src/decompress.rs) - a cursor over the        *)
(*       decompressed bytes of a seekable zstd object, with seek and read; *)
(*   SeekableS3Object (src/src/seekable_s3.rs) - a cursor over the bytes   *)
(*       of an S3 object, read through ranged GetObject requests.          *)
(*                                                                         *)
(* Each adapter is a struct (one record-valued variable), its upstream     *)
(* stream (an environment that answers every poll with Pending, an item    *)
(* or end-of-stream), the position of the running poll_next call           *)
(* ("idle" between calls, "loop" inside the loop of poll_next) and what    *)
(* the consumer has observed (the last value returned, the items emitted). *)
(*                                                                         *)
(* Bytes are modelled as tokens: the i-th byte an upstream hands out is    *)
(* the number i.  Neither adapter inspects a byte, so distinct tokens show *)
(* every loss, duplication or reordering.                                  *)
(***************************************************************************)
EXTENDS Integers, Sequences, FiniteSets, TLC

\* ------------------------------------------------------------------ bounds
\* Largest minimum_part_size tried.
MaxMin == 2
\* Longest chunk an upstream hands out in one item.
MaxChunk == 3
\* Bytes an upstream hands out in all.
MaxBytes == 6
\* Upstream polls in all (Pending, items, errors and end-of-stream).
MaxPolls == 8
\* poll_next calls made by the consumer in all.
MaxCalls == 5
\* The same four for the scenario of fragments fed and the stream closed.
FeedMin == 4
FeedChunk == 3
FeedBytes == 12
FeedCalls == 5
\* Compress: the longest chunk of its upstream, the bytes its upstream hands
\* out in all, the polls of its upstream, the poll_next calls, the codec
\* calls, and the size of buf_out (CStream::out_size(), scaled down).
CoChunk == 2
CoBytes == 3
CoPolls == 4
CoCalls == 4
CoCodecCalls == 4
OutSize == 2
\* SeekableDecompress: the width of u64 and i64 in bits (scaled down from
\* 64: u64 is 0..2^Bits - 1, i64 is -2^(Bits-1)..2^(Bits-1) - 1), the longest
\* buffer handed to read, and the most frames an object has.
Bits == 3
MaxBuf == 2
MaxFrames == 1

\* ------------------------------------------------------------- Option, Poll
None == [some |-> FALSE]
Some(v) == [some |-> TRUE, val |-> v]

\* std::task::Poll<Option<Result<T, E>>> as poll_next returns it; NotPolled
\* stands for "poll_next has not returned yet".
NotPolled == [tag |-> "NotPolled"]
Pending == [tag |-> "Pending"]
ReadyNone == [tag |-> "None"]
ReadyOk(v) == [tag |-> "Ok", val |-> v]
ReadyErr(e) == [tag |-> "Err", err |-> e]

\* The bytes n+1 .. n+len: the chunk an upstream that has handed out n bytes
\* hands out next.
Chunk(n, len) == [i \in 1..len |-> n + i]

\* Errors an upstream of UploadParts may yield (the type parameter E).
UpstreamErrors == {"e1", "e2"}

\* The upstream before its first poll.
Unpolled == [polls |-> 0, sent |-> 0, cuts |-> {}, ended |-> FALSE,
             last |-> NotPolled]

NoLocal == [input |-> <<>>, compressed_bytes |-> <<>>]

\* Compress::new, the codec session created.
Compress_new == [wrote_seek_table |-> FALSE]

\* The codec session before its first call: calls made, bytes written so far
\* and the result of the last call.
NewSession == [compress_calls |-> 0, end_stream_calls |-> 0, out |-> 0,
               last |-> None]

\* ------------------------------------------------------------ UploadParts
\* rusoto_s3::UploadPartRequest, as the caller supplies it to upload_parts.
Templates ==
    { [ body |-> None, bucket |-> "b0", content_length |-> None,
        content_md5 |-> None, expected_bucket_owner |-> None, key |-> "k0",
        part_number |-> 0, request_payer |-> None,
        sse_customer_algorithm |-> None, sse_customer_key |-> None,
        sse_customer_key_md5 |-> None, upload_id |-> "u0" ],
      [ body |-> Some(<<77>>), bucket |-> "b1", content_length |-> Some(5),
        content_md5 |-> Some("md5"), expected_bucket_owner |-> Some("owner"),
        key |-> "k1", part_number |-> 7, request_payer |-> Some("requester"),
        sse_customer_algorithm |-> Some("AES256"),
        sse_customer_key |-> Some("key"),
        sse_customer_key_md5 |-> Some("keymd5"), upload_id |-> "u1" ] }

VARIABLES
    up,          \* the UploadParts struct: input, next_part_number, finished,
                 \* part_template, minimum_part_size
    up_stream,   \* its upstream: polls made of it, bytes handed out, the
                 \* offsets at which its chunks ended, whether it has
                 \* reported end-of-stream, the value it answered last
    up_pc,       \* "idle": no poll_next call is running; "loop": inside the loop
    up_ret,      \* what poll_next returned last
    up_parts,    \* every part poll_next has returned, in order
    up_calls     \* poll_next calls made so far

upvars == <<up, up_stream, up_pc, up_ret, up_parts, up_calls>>

VARIABLES
    co,          \* the Compress struct: wrote_seek_table (buf_out is scratch
                 \* space of OutSize bytes, cstream is co_cstream)
    co_stream,   \* its upstream, as up_stream
    co_cstream,  \* the codec session: compress and end_stream calls made of it,
                 \* bytes it has produced
    co_pc,       \* "idle", "loop" (the loop of poll_next), "compress_input"
                 \* (the while loop of compress_input), "end_stream" (the
                 \* flush loop of end_stream)
    co_local,    \* the locals of the running compress_input or end_stream:
                 \* input (what is left to feed), compressed_bytes
    co_ret,      \* what poll_next returned last
    co_items,    \* every Ok item poll_next has returned, in order
    co_calls     \* poll_next calls made so far

covars == <<co, co_stream, co_cstream, co_pc, co_local, co_ret, co_items, co_calls>>

\* SeekableDecompress before SeekableDecompress::new has returned.
NotConstructed == [decompressed_size |-> 0, decompressed_position |-> 0]

\* No read is running.
NoRead == [buf_len |-> 0, offset |-> 0, len |-> 0]

\* No function of SeekableDecompress has returned yet.
NotCalled == [op |-> "none"]

\* A compressed object of one empty frame, on a target whose usize is as wide
\* as u64.
EmptyFrame == [usize_bits |-> Bits, init_ok |-> TRUE, num_frames |-> 1,
               last_frame_start |-> 0, last_frame_size |-> 0]

VARIABLES
    de,          \* the SeekableDecompress struct: decompressed_size,
                 \* decompressed_position (seekable is de_seekable)
    de_seekable, \* the codec's view of the compressed object: whether
                 \* Seekable::init accepts it, its number of frames, the
                 \* decompressed offset and size of its last frame; and the
                 \* width of usize on the target
    de_pc,       \* "new": not constructed; "idle": between calls;
                 \* "decompress": read is at its seekable.decompress call;
                 \* "failed": new returned an error
    de_local,    \* the running read: the length of the caller's buffer, and
                 \* the offset and length of the slice handed to the codec
    de_ret       \* the function that returned last and what it returned; for
                 \* read, the bytes in the caller's buffer and the function
                 \* that had returned before it

devars == <<de, de_seekable, de_pc, de_local, de_ret>>

\* SeekableS3Object before SeekableS3Object::new has returned: the request
\* and the read timeout are the caller's.
NotFetched(range, read_timeout) ==
    [ position |-> 0, length |-> 0, body |-> None,
      req |-> [range |-> range], read_timeout |-> read_timeout ]

\* No call of SeekableS3Object is running.
NoCall == [buf_len |-> 0, fetches |-> 0, range |-> None, late |-> FALSE]

VARIABLES
    s3,          \* the SeekableS3Object struct: position, length, body (None,
                 \* or Some([at |-> the offset in the object of the next byte
                 \* the body yields])), req (its range), read_timeout
    s3_pc,       \* "new": not constructed; "new_fetch": new waits for its
                 \* get_object; "idle": between calls; "fetch": read waits for
                 \* its get_object; "body": read_body waits for body.read;
                 \* "failed": new returned an error
    s3_local,    \* the running call: the length of the caller's buffer, the
                 \* get_object requests it has issued, the range of the last,
                 \* whether its get_object completed after the deadline
    s3_ret       \* the function that returned last, what it returned, the
                 \* get_object requests it issued and, for seek, whether it
                 \* moved the cursor and whether the call before it was a read
                 \* that failed, for new, what its get_object came to,
                 \* for read, whether an operation it awaited completed after
                 \* the deadline

s3vars == <<s3, s3_pc, s3_local, s3_ret>>

vars == <<upvars, covars, devars, s3vars>>

\* UploadParts::new
UploadParts_new(part_template, minimum_part_size) ==
    [ input |-> <<>>,
      next_part_number |-> 1,
      finished |-> FALSE,
      part_template |-> part_template,
      minimum_part_size |-> minimum_part_size ]

\* The request part_from_buffer builds.
UploadPartRequest(this, key, part_number) ==
    [ body |-> Some(this.input),
      bucket |-> this.part_template.bucket,
      content_length |-> None,
      content_md5 |-> this.part_template.content_md5,
      expected_bucket_owner |-> this.part_template.expected_bucket_owner,
      key |-> key,
      part_number |-> part_number,
      request_payer |-> this.part_template.request_payer,
      sse_customer_algorithm |-> this.part_template.sse_customer_algorithm,
      sse_customer_key |-> this.part_template.sse_customer_key,
      sse_customer_key_md5 |-> this.part_template.sse_customer_key_md5,
      upload_id |-> this.part_template.upload_id ]

\* Mutant of part_from_buffer: the buffer is not cleared.
part_from_buffer_uncleared(this) ==
    [ req |-> UploadPartRequest(this, this.part_template.key, this.next_part_number),
      this |-> [this EXCEPT !.next_part_number = @ + 1] ]

\* Mutant of part_from_buffer: the part number is not advanced.
part_from_buffer_same_number(this) ==
    [ req |-> UploadPartRequest(this, this.part_template.key, this.next_part_number),
      this |-> [this EXCEPT !.input = <<>>] ]

\* Mutant of part_from_buffer: key is copied from the template's bucket.
part_from_buffer_key_slip(this) ==
    [ req |-> UploadPartRequest(this, this.part_template.bucket, this.next_part_number),
      this |-> [this EXCEPT !.next_part_number = @ + 1, !.input = <<>>] ]

\* UploadParts::part_from_buffer: the request built from the whole buffer, and
\* the struct with the number advanced and the buffer cleared.
part_from_buffer(this) ==
    [ req |-> UploadPartRequest(this, this.part_template.key, this.next_part_number),
      this |-> [this EXCEPT !.next_part_number = @ + 1, !.input = <<>>] ]

\* Mutant of accept_input: a part is made of any non-empty buffer.
accept_input_eager(this, input) ==
    LET put == [this EXCEPT !.input = @ \o input]
    IN  IF Len(put.input) >= 1
        THEN LET r == part_from_buffer(put)
             IN  [ret |-> Some(r.req), this |-> r.this]
        ELSE [ret |-> None, this |-> put]

\* Mutant of accept_input: the buffer must exceed the minimum.
accept_input_strict(this, input) ==
    LET put == [this EXCEPT !.input = @ \o input]
    IN  IF Len(put.input) > put.minimum_part_size
        THEN LET r == part_from_buffer(put)
             IN  [ret |-> Some(r.req), this |-> r.this]
        ELSE [ret |-> None, this |-> put]

\* Mutant of accept_input: the part is clipped to the minimum and the rest
\* of the buffer is kept.
accept_input_clip(this, input) ==
    LET put == [this EXCEPT !.input = @ \o input]
        m == put.minimum_part_size
    IN  IF Len(put.input) >= m
        THEN LET r == part_from_buffer([put EXCEPT !.input = SubSeq(@, 1, m)])
             IN  [ret |-> Some(r.req),
                  this |-> [r.this EXCEPT !.input = SubSeq(put.input, m + 1, Len(put.input))]]
        ELSE [ret |-> None, this |-> put]

\* UploadParts::accept_input: Option<UploadPartRequest> and the struct after.
accept_input(this, input) ==
    LET put == [this EXCEPT !.input = @ \o input]
    IN  IF Len(put.input) >= put.minimum_part_size
        THEN LET r == part_from_buffer(put)
             IN  [ret |-> Some(r.req), this |-> r.this]
        ELSE [ret |-> None, this |-> put]

\* Mutant of end_stream: a last part is made of the buffer even when empty.
UploadParts_end_stream_always(this) ==
    LET fin == [this EXCEPT !.finished = TRUE]
        r == part_from_buffer(fin)
    IN  [ret |-> Some(r.req), this |-> r.this]

\* Mutant of end_stream: finished is not set.
UploadParts_end_stream_unfinished(this) ==
    IF this.input # <<>>
    THEN LET r == part_from_buffer(this)
         IN  [ret |-> Some(r.req), this |-> r.this]
    ELSE [ret |-> None, this |-> this]

\* Mutant of end_stream: the last part too must reach the minimum.
UploadParts_end_stream_min(this) ==
    LET fin == [this EXCEPT !.finished = TRUE]
    IN  IF Len(fin.input) >= fin.minimum_part_size /\ fin.input # <<>>
        THEN LET r == part_from_buffer(fin)
             IN  [ret |-> Some(r.req), this |-> r.this]
        ELSE [ret |-> None, this |-> fin]

\* UploadParts::end_stream: Option<UploadPartRequest> and the struct after.
UploadParts_end_stream(this) ==
    LET fin == [this EXCEPT !.finished = TRUE]
    IN  IF fin.input # <<>>
        THEN LET r == part_from_buffer(fin)
             IN  [ret |-> Some(r.req), this |-> r.this]
        ELSE [ret |-> None, this |-> fin]

\* UploadParts::finished
UploadParts_finished(this) == this.finished

\* Mutant of the loop of poll_next: an upstream that is not ready is taken
\* for one that has ended.
UploadParts_poll_next_loop_pending_ends(this, polled) ==
    CASE polled.tag \in {"Pending", "None"} ->
           LET r == UploadParts_end_stream(this)
           IN  [this |-> r.this,
                ret |-> Some(IF r.ret.some THEN ReadyOk(r.ret.val) ELSE ReadyNone)]
      [] polled.tag = "Err" ->
           [this |-> this, ret |-> Some(ReadyErr(polled.err))]
      [] polled.tag = "Ok" ->
           LET r == accept_input(this, polled.val)
           IN  [this |-> r.this,
                ret |-> IF r.ret.some THEN Some(ReadyOk(r.ret.val)) ELSE None]

\* Mutant of the loop of poll_next: an upstream that is not ready makes the
\* loop hand out what the accumulator holds.
UploadParts_poll_next_loop_pending_flushes(this, polled) ==
    CASE polled.tag = "Pending" ->
           IF this.input # <<>>
           THEN LET r == part_from_buffer(this)
                IN  [this |-> r.this, ret |-> Some(ReadyOk(r.req))]
           ELSE [this |-> this, ret |-> Some(Pending)]
      [] polled.tag = "None" ->
           LET r == UploadParts_end_stream(this)
           IN  [this |-> r.this,
                ret |-> Some(IF r.ret.some THEN ReadyOk(r.ret.val) ELSE ReadyNone)]
      [] polled.tag = "Err" ->
           [this |-> this, ret |-> Some(ReadyErr(polled.err))]
      [] polled.tag = "Ok" ->
           LET r == accept_input(this, polled.val)
           IN  [this |-> r.this,
                ret |-> IF r.ret.some THEN Some(ReadyOk(r.ret.val)) ELSE None]

\* Mutant of the loop of poll_next: an upstream error finishes the stream.
UploadParts_poll_next_loop_err_finishes(this, polled) ==
    CASE polled.tag = "Pending" ->
           [this |-> this, ret |-> Some(Pending)]
      [] polled.tag = "None" ->
           LET r == UploadParts_end_stream(this)
           IN  [this |-> r.this,
                ret |-> Some(IF r.ret.some THEN ReadyOk(r.ret.val) ELSE ReadyNone)]
      [] polled.tag = "Err" ->
           [this |-> [this EXCEPT !.finished = TRUE],
            ret |-> Some(ReadyErr(polled.err))]
      [] polled.tag = "Ok" ->
           LET r == accept_input(this, polled.val)
           IN  [this |-> r.this,
                ret |-> IF r.ret.some THEN Some(ReadyOk(r.ret.val)) ELSE None]

\* The loop of UploadParts::poll_next, one turn: what the match on
\* ready!(self.next_input(cx)) does with the polled value.  ret is Some(the
\* value poll_next returns), or None when the loop goes round.
UploadParts_poll_next_loop(this, polled) ==
    CASE polled.tag = "Pending" ->
           [this |-> this, ret |-> Some(Pending)]
      [] polled.tag = "None" ->
           LET r == UploadParts_end_stream(this)
           IN  [this |-> r.this,
                ret |-> Some(IF r.ret.some THEN ReadyOk(r.ret.val) ELSE ReadyNone)]
      [] polled.tag = "Err" ->
           [this |-> this, ret |-> Some(ReadyErr(polled.err))]
      [] polled.tag = "Ok" ->
           LET r == accept_input(this, polled.val)
           IN  [this |-> r.this,
                ret |-> IF r.ret.some THEN Some(ReadyOk(r.ret.val)) ELSE None]

\* State after construction: any template, any minimum part size, an upstream
\* that has not been polled; a Compress that is left alone.
UploadParts_Init ==
    /\ \E t \in Templates, m \in 0..MaxMin : up = UploadParts_new(t, m)
    /\ up_stream = Unpolled
    /\ up_pc = "idle"
    /\ up_ret = NotPolled
    /\ up_parts = <<>>
    /\ up_calls = 0
    /\ co = Compress_new
    /\ co_stream = Unpolled
    /\ co_cstream = NewSession
    /\ co_pc = "idle"
    /\ co_local = NoLocal
    /\ co_ret = NotPolled
    /\ co_items = <<>>
    /\ co_calls = 0
    /\ de = NotConstructed
    /\ de_seekable = EmptyFrame
    /\ de_pc = "new"
    /\ de_local = NoRead
    /\ de_ret = NotCalled
    /\ s3 = NotFetched(None, None)
    /\ s3_pc = "new"
    /\ s3_local = NoCall
    /\ s3_ret = NotCalled

\* poll_next is called: it returns Ready(None) at once when finished, and
\* enters its loop otherwise.
UploadParts_call(maxCalls) ==
    /\ up_pc = "idle"
    /\ up_calls < maxCalls
    /\ up_calls' = up_calls + 1
    /\ IF UploadParts_finished(up)
       THEN up_pc' = "idle" /\ up_ret' = ReadyNone
       ELSE up_pc' = "loop" /\ up_ret' = up_ret
    /\ UNCHANGED <<up, up_stream, up_parts, covars, devars, s3vars>>

\* One turn of the loop with the value the upstream answered the poll with:
\* the call returns (and a returned part is recorded) or the loop goes round.
UploadParts_turn(polled) ==
    /\ up_pc = "loop"
    /\ LET r == UploadParts_poll_next_loop(up, polled)
       IN  /\ up' = r.this
           /\ IF r.ret.some
              THEN /\ up_pc' = "idle"
                   /\ up_ret' = r.ret.val
                   /\ up_parts' = IF r.ret.val.tag = "Ok"
                                  THEN Append(up_parts, r.ret.val.val)
                                  ELSE up_parts
              ELSE /\ up_pc' = "loop"
                   /\ UNCHANGED <<up_ret, up_parts>>
    /\ UNCHANGED <<up_calls, covars, devars, s3vars>>

\* The upstream answers a poll with a chunk of minLen..maxChunk bytes.
UploadParts_yield(minLen, maxChunk, maxBytes, maxPolls) ==
    \E len \in minLen..maxChunk :
        /\ up_stream.polls < maxPolls
        /\ up_stream.sent + len <= maxBytes
        /\ UploadParts_turn(ReadyOk(Chunk(up_stream.sent, len)))
        /\ up_stream' = [up_stream EXCEPT !.polls = @ + 1,
                                          !.last = ReadyOk(Chunk(up_stream.sent, len)),
                                          !.sent = @ + len,
                                          !.cuts = @ \cup {up_stream.sent + len}]

\* The upstream answers a poll with end-of-stream.
UploadParts_close(maxPolls) ==
    /\ up_stream.polls < maxPolls
    /\ UploadParts_turn(ReadyNone)
    /\ up_stream' = [up_stream EXCEPT !.polls = @ + 1, !.last = ReadyNone,
                                      !.ended = TRUE]

UploadParts_poll_next == UploadParts_call(MaxCalls)

\* The upstream is not ready.
UploadParts_next_input_Pending ==
    /\ up_stream.polls < MaxPolls
    /\ UploadParts_turn(Pending)
    /\ up_stream' = [up_stream EXCEPT !.polls = @ + 1, !.last = Pending]

\* The upstream has ended.
UploadParts_next_input_None == UploadParts_close(MaxPolls)

\* The upstream yields an error.
UploadParts_next_input_Err ==
    \E e \in UpstreamErrors :
        /\ up_stream.polls < MaxPolls
        /\ UploadParts_turn(ReadyErr(e))
        /\ up_stream' = [up_stream EXCEPT !.polls = @ + 1, !.last = ReadyErr(e)]

\* The upstream yields a chunk, possibly empty.
UploadParts_next_input_Ok == UploadParts_yield(0, MaxChunk, MaxBytes, MaxPolls)

UploadParts_Next ==
    \/ UploadParts_poll_next
    \/ UploadParts_next_input_Pending
    \/ UploadParts_next_input_None
    \/ UploadParts_next_input_Err
    \/ UploadParts_next_input_Ok

\* The scenario of non-empty fragments fed one after the other and the
\* upstream then closed: no Pending, no error, a minimum part size of at least
\* one byte.
Feed_Init ==
    /\ \E t \in Templates, m \in 1..FeedMin :
         /\ t.bucket = "b0"
         /\ up = UploadParts_new(t, m)
    /\ up_stream = Unpolled
    /\ up_pc = "idle"
    /\ up_ret = NotPolled
    /\ up_parts = <<>>
    /\ up_calls = 0
    /\ co = Compress_new
    /\ co_stream = Unpolled
    /\ co_cstream = NewSession
    /\ co_pc = "idle"
    /\ co_local = NoLocal
    /\ co_ret = NotPolled
    /\ co_items = <<>>
    /\ co_calls = 0
    /\ de = NotConstructed
    /\ de_seekable = EmptyFrame
    /\ de_pc = "new"
    /\ de_local = NoRead
    /\ de_ret = NotCalled
    /\ s3 = NotFetched(None, None)
    /\ s3_pc = "new"
    /\ s3_local = NoCall
    /\ s3_ret = NotCalled

Feed_poll_next == UploadParts_call(FeedCalls)

Feed_next_input_Ok == UploadParts_yield(1, FeedChunk, FeedBytes, FeedBytes + 1)

Feed_next_input_None == UploadParts_close(FeedBytes + 1)

Feed_Next ==
    \/ Feed_poll_next
    \/ Feed_next_input_Ok
    \/ Feed_next_input_None

\* ---------------------------------------------------------------- Compress
\* std::result::Result
Ok(v) == [ok |-> TRUE, val |-> v]
Err(e) == [ok |-> FALSE, err |-> e]

\* Errors the codec session may return (zstd_seekable::Error).
CodecErrors == {"zstd"}

\* Mutant of finished: the flag is not looked at.
Compress_finished_never(this) == FALSE

\* Compress::finished
Compress_finished(this) == this.wrote_seek_table

\* Compress::compress_input up to its while loop: Some(the result) when it
\* returns at once (empty input), None when the loop is entered.
compress_input_begin(input) ==
    IF input = <<>> THEN Some(Ok(<<>>)) ELSE None

\* Mutant of compress_input: the output of a codec call is put in front of
\* the output of the calls before it.
compress_input_while_in_front(local, out, in_pos) ==
    [ input |-> SubSeq(local.input, in_pos + 1, Len(local.input)),
      compressed_bytes |-> out \o local.compressed_bytes ]

\* Compress::compress_input, one turn of the while loop after the codec
\* wrote `out` and consumed in_pos bytes.
compress_input_while(local, out, in_pos) ==
    [ input |-> SubSeq(local.input, in_pos + 1, Len(local.input)),
      compressed_bytes |-> local.compressed_bytes \o out ]

\* Mutant of end_stream: the loop goes on after a call that wrote nothing.
Compress_end_stream_endless(this, local, out) ==
    [ this |-> this,
      local |-> [local EXCEPT !.compressed_bytes = @ \o out],
      done |-> FALSE ]

\* Mutant of end_stream: each flush call's output replaces the output of the
\* calls before it.
Compress_end_stream_last_only(this, local, out) ==
    [ this |-> IF out = <<>> THEN [this EXCEPT !.wrote_seek_table = TRUE] ELSE this,
      local |-> IF out = <<>> THEN local ELSE [local EXCEPT !.compressed_bytes = out],
      done |-> out = <<>> ]

\* Mutant of end_stream: wrote_seek_table is not set.
Compress_end_stream_unmarked(this, local, out) ==
    [ this |-> this,
      local |-> [local EXCEPT !.compressed_bytes = @ \o out],
      done |-> out = <<>> ]

\* Compress::end_stream after one successful codec end_stream call that wrote
\* `out`: the loop goes on while the call wrote something; after it
\* wrote_seek_table is set and compressed_bytes is the result.
Compress_end_stream(this, local, out) ==
    [ this |-> IF out = <<>> THEN [this EXCEPT !.wrote_seek_table = TRUE] ELSE this,
      local |-> [local EXCEPT !.compressed_bytes = @ \o out],
      done |-> out = <<>> ]

\* Compress::poll_next, the None arm: the value returned for the result of
\* end_stream.
Compress_poll_next_None(res) ==
    IF ~res.ok THEN Some(ReadyErr(res.err))
    ELSE IF res.val = <<>> THEN Some(ReadyNone)
    ELSE Some(ReadyOk(res.val))

\* Mutant of the Some arm: a codec error is dropped and the loop goes round.
Compress_poll_next_Some_swallow(res) ==
    IF res.ok /\ res.val # <<>> THEN Some(ReadyOk(res.val)) ELSE None

\* Mutant of the Some arm: the output of a chunk is emitted even when empty.
Compress_poll_next_Some_unconditional(res) ==
    IF ~res.ok THEN Some(ReadyErr(res.err)) ELSE Some(ReadyOk(res.val))

\* Compress::poll_next, the Some arm: Some(the value returned) for the result
\* of compress_input, None when the loop goes round.
Compress_poll_next_Some(res) ==
    IF ~res.ok THEN Some(ReadyErr(res.err))
    ELSE IF res.val # <<>> THEN Some(ReadyOk(res.val))
    ELSE None

\* State after construction, the upstream not polled and the codec session
\* not used; an UploadParts that is left alone.
Compress_Init ==
    /\ co = Compress_new
    /\ co_stream = Unpolled
    /\ co_cstream = NewSession
    /\ co_pc = "idle"
    /\ co_local = NoLocal
    /\ co_ret = NotPolled
    /\ co_items = <<>>
    /\ co_calls = 0
    /\ up = UploadParts_new(CHOOSE t \in Templates : t.bucket = "b0", 1)
    /\ up_stream = Unpolled
    /\ up_pc = "idle"
    /\ up_ret = NotPolled
    /\ up_parts = <<>>
    /\ up_calls = 0
    /\ de = NotConstructed
    /\ de_seekable = EmptyFrame
    /\ de_pc = "new"
    /\ de_local = NoRead
    /\ de_ret = NotCalled
    /\ s3 = NotFetched(None, None)
    /\ s3_pc = "new"
    /\ s3_local = NoCall
    /\ s3_ret = NotCalled

\* poll_next is called: it returns Ready(None) at once when finished, and
\* enters its loop otherwise.
Compress_poll_next ==
    /\ co_pc = "idle"
    /\ co_calls < CoCalls
    /\ co_calls' = co_calls + 1
    /\ IF Compress_finished(co)
       THEN co_pc' = "idle" /\ co_ret' = ReadyNone
       ELSE co_pc' = "loop" /\ co_ret' = co_ret
    /\ UNCHANGED <<co, co_stream, co_cstream, co_local, co_items, upvars, devars, s3vars>>

\* poll_next leaves its loop with `opt` = Some(the value returned), or goes
\* round it with None.
Compress_break(opt) ==
    IF opt.some
    THEN /\ co_pc' = "idle"
         /\ co_ret' = opt.val
         /\ co_items' = IF opt.val.tag = "Ok" THEN Append(co_items, opt.val.val)
                        ELSE co_items
    ELSE /\ co_pc' = "loop"
         /\ UNCHANGED <<co_ret, co_items>>

\* The upstream is not ready: ready! returns Pending.
Compress_next_input_Pending ==
    /\ co_pc = "loop"
    /\ co_stream.polls < CoPolls
    /\ co_stream' = [co_stream EXCEPT !.polls = @ + 1, !.last = Pending]
    /\ Compress_break(Some(Pending))
    /\ UNCHANGED <<co, co_cstream, co_local, co_calls, upvars, devars, s3vars>>

\* The upstream has ended: end_stream is entered.
Compress_next_input_None ==
    /\ co_pc = "loop"
    /\ co_stream.polls < CoPolls
    /\ co_stream' = [co_stream EXCEPT !.polls = @ + 1, !.last = ReadyNone,
                                      !.ended = TRUE]
    /\ co_pc' = "end_stream"
    /\ co_local' = NoLocal
    /\ UNCHANGED <<co, co_cstream, co_ret, co_items, co_calls, upvars, devars, s3vars>>

\* The upstream yields a chunk, possibly empty: compress_input is entered, and
\* returns at once for an empty chunk.
Compress_next_input_Some ==
    /\ co_pc = "loop"
    /\ co_stream.polls < CoPolls
    /\ \E len \in 0..CoChunk :
         LET bytes == Chunk(co_stream.sent, len)
             begun == compress_input_begin(bytes)
         IN  /\ co_stream.sent + len <= CoBytes
             /\ co_stream' = [co_stream EXCEPT !.polls = @ + 1,
                                               !.last = ReadyOk(bytes),
                                               !.sent = @ + len,
                                               !.cuts = @ \cup {co_stream.sent + len}]
             /\ IF begun.some
                THEN /\ Compress_break(Compress_poll_next_Some(begun.val))
                     /\ co_local' = NoLocal
                ELSE /\ co_pc' = "compress_input"
                     /\ co_local' = [input |-> bytes, compressed_bytes |-> <<>>]
                     /\ UNCHANGED <<co_ret, co_items>>
    /\ UNCHANGED <<co, co_cstream, co_calls, upvars, devars, s3vars>>

\* cstream.compress(buf_out, input) succeeds: the codec writes 0..OutSize
\* bytes and consumes 0..len(input) bytes.
Compress_cstream_compress_Ok ==
    /\ co_pc = "compress_input"
    /\ co_cstream.compress_calls + co_cstream.end_stream_calls < CoCodecCalls
    /\ \E out_pos \in 0..OutSize, in_pos \in 0..Len(co_local.input) :
         LET out == Chunk(co_cstream.out, out_pos)
             local == compress_input_while(co_local, out, in_pos)
         IN  /\ co_cstream' = [co_cstream EXCEPT !.compress_calls = @ + 1,
                                                 !.out = @ + out_pos,
                                                 !.last = Some(Ok(out_pos))]
             /\ IF local.input # <<>>
                THEN /\ co_local' = local
                     /\ UNCHANGED <<co_pc, co_ret, co_items>>
                ELSE /\ co_local' = NoLocal
                     /\ Compress_break(Compress_poll_next_Some(Ok(local.compressed_bytes)))
    /\ UNCHANGED <<co, co_stream, co_calls, upvars, devars, s3vars>>

\* cstream.compress(buf_out, input) fails: compress_input returns the error.
Compress_cstream_compress_Err ==
    /\ co_pc = "compress_input"
    /\ co_cstream.compress_calls + co_cstream.end_stream_calls < CoCodecCalls
    /\ \E e \in CodecErrors :
         /\ co_cstream' = [co_cstream EXCEPT !.compress_calls = @ + 1,
                                             !.last = Some(Err(e))]
         /\ Compress_break(Compress_poll_next_Some(Err(e)))
    /\ co_local' = NoLocal
    /\ UNCHANGED <<co, co_stream, co_calls, upvars, devars, s3vars>>

\* cstream.end_stream(buf_out) succeeds: the codec writes 0..OutSize bytes.
Compress_cstream_end_stream_Ok ==
    /\ co_pc = "end_stream"
    /\ co_cstream.compress_calls + co_cstream.end_stream_calls < CoCodecCalls
    /\ \E out_pos \in 0..OutSize :
         LET r == Compress_end_stream(co, co_local, Chunk(co_cstream.out, out_pos))
         IN  /\ co_cstream' = [co_cstream EXCEPT !.end_stream_calls = @ + 1,
                                                 !.out = @ + out_pos,
                                                 !.last = Some(Ok(out_pos))]
             /\ co' = r.this
             /\ IF r.done
                THEN /\ co_local' = NoLocal
                     /\ Compress_break(Compress_poll_next_None(Ok(r.local.compressed_bytes)))
                ELSE /\ co_local' = r.local
                     /\ UNCHANGED <<co_pc, co_ret, co_items>>
    /\ UNCHANGED <<co_stream, co_calls, upvars, devars, s3vars>>

\* cstream.end_stream(buf_out) fails: end_stream returns the error and
\* wrote_seek_table is not set.
Compress_cstream_end_stream_Err ==
    /\ co_pc = "end_stream"
    /\ co_cstream.compress_calls + co_cstream.end_stream_calls < CoCodecCalls
    /\ \E e \in CodecErrors :
         /\ co_cstream' = [co_cstream EXCEPT !.end_stream_calls = @ + 1,
                                             !.last = Some(Err(e))]
         /\ Compress_break(Compress_poll_next_None(Err(e)))
    /\ co_local' = NoLocal
    /\ UNCHANGED <<co, co_stream, co_calls, upvars, devars, s3vars>>

Compress_Next ==
    \/ Compress_poll_next
    \/ Compress_next_input_Pending
    \/ Compress_next_input_None
    \/ Compress_next_input_Some
    \/ Compress_cstream_compress_Ok
    \/ Compress_cstream_compress_Err
    \/ Compress_cstream_end_stream_Ok
    \/ Compress_cstream_end_stream_Err

\* A Compress whose codec session returns no error.
CompressOk_Next ==
    \/ Compress_poll_next
    \/ Compress_next_input_Pending
    \/ Compress_next_input_None
    \/ Compress_next_input_Some
    \/ Compress_cstream_compress_Ok
    \/ Compress_cstream_end_stream_Ok

\* ------------------------------------- Compress driven to the end of its input
\* The consumer demands again until it is given Ready(None).
Live_poll_next ==
    /\ co_pc = "idle"
    /\ co_ret # ReadyNone
    /\ co_calls' = co_calls + 1
    /\ IF Compress_finished(co)
       THEN co_pc' = "idle" /\ co_ret' = ReadyNone
       ELSE co_pc' = "loop" /\ co_ret' = co_ret
    /\ UNCHANGED <<co, co_stream, co_cstream, co_local, co_items, upvars, devars, s3vars>>

\* The upstream is not ready, which it is at most CoPolls times.
Live_next_input_Pending ==
    /\ co_pc = "loop"
    /\ co_stream.polls < CoPolls
    /\ co_stream' = [co_stream EXCEPT !.polls = @ + 1, !.last = Pending]
    /\ Compress_break(Some(Pending))
    /\ UNCHANGED <<co, co_cstream, co_local, co_calls, upvars, devars, s3vars>>

\* The upstream has ended.
Live_next_input_None ==
    /\ co_pc = "loop"
    /\ co_stream' = [co_stream EXCEPT !.last = ReadyNone, !.ended = TRUE]
    /\ co_pc' = "end_stream"
    /\ co_local' = NoLocal
    /\ UNCHANGED <<co, co_cstream, co_ret, co_items, co_calls, upvars, devars, s3vars>>

\* The upstream, not ended, yields a chunk, possibly empty.
Live_next_input_Some ==
    /\ co_pc = "loop"
    /\ ~co_stream.ended
    /\ co_stream.polls < CoPolls
    /\ \E len \in 0..CoChunk :
         LET bytes == Chunk(co_stream.sent, len)
             begun == compress_input_begin(bytes)
         IN  /\ co_stream.sent + len <= CoBytes
             /\ co_stream' = [co_stream EXCEPT !.polls = @ + 1,
                                               !.last = ReadyOk(bytes),
                                               !.sent = @ + len,
                                               !.cuts = @ \cup {co_stream.sent + len}]
             /\ IF begun.some
                THEN /\ Compress_break(Compress_poll_next_Some(begun.val))
                     /\ co_local' = NoLocal
                ELSE /\ co_pc' = "compress_input"
                     /\ co_local' = [input |-> bytes, compressed_bytes |-> <<>>]
                     /\ UNCHANGED <<co_ret, co_items>>
    /\ UNCHANGED <<co, co_cstream, co_calls, upvars, devars, s3vars>>

\* cstream.compress(buf_out, input) succeeds: the codec writes nothing or
\* fills buf_out, and consumes at least one byte of the input.
Live_cstream_compress_Ok ==
    /\ co_pc = "compress_input"
    /\ \E out_pos \in {0, OutSize}, in_pos \in 1..Len(co_local.input) :
         LET out == Chunk(co_cstream.out, out_pos)
             local == compress_input_while(co_local, out, in_pos)
         IN  /\ co_cstream' = [co_cstream EXCEPT !.compress_calls = @ + 1,
                                                 !.out = @ + out_pos,
                                                 !.last = Some(Ok(out_pos))]
             /\ IF local.input # <<>>
                THEN /\ co_local' = local
                     /\ UNCHANGED <<co_pc, co_ret, co_items>>
                ELSE /\ co_local' = NoLocal
                     /\ Compress_break(Compress_poll_next_Some(Ok(local.compressed_bytes)))
    /\ UNCHANGED <<co, co_stream, co_calls, upvars, devars, s3vars>>

\* cstream.end_stream(buf_out) succeeds: the codec writes nothing or fills
\* buf_out, and writes nothing from its call number CoCodecCalls on.
Live_cstream_end_stream_Ok ==
    /\ co_pc = "end_stream"
    /\ \E out_pos \in {0, OutSize} :
         LET r == Compress_end_stream(co, co_local, Chunk(co_cstream.out, out_pos))
         IN  /\ co_cstream.end_stream_calls >= CoCodecCalls - 1 => out_pos = 0
             /\ co_cstream' = [co_cstream EXCEPT
                                  !.end_stream_calls = IF @ < CoCodecCalls THEN @ + 1
                                                       ELSE @,
                                  !.out = @ + out_pos,
                                  !.last = Some(Ok(out_pos))]
             /\ co' = r.this
             /\ IF r.done
                THEN /\ co_local' = NoLocal
                     /\ Compress_break(Compress_poll_next_None(Ok(r.local.compressed_bytes)))
                ELSE /\ co_local' = r.local
                     /\ UNCHANGED <<co_pc, co_ret, co_items>>
    /\ UNCHANGED <<co_stream, co_calls, upvars, devars, s3vars>>

Live_Next ==
    \/ Live_poll_next
    \/ Live_next_input_Pending
    \/ Live_next_input_None
    \/ Live_next_input_Some
    \/ Live_cstream_compress_Ok
    \/ Live_cstream_end_stream_Ok

\* The consumer drops the Compress between two poll_next calls.  The struct
\* has no Drop implementation: its fields are dropped, nothing is called.
Compress_drop ==
    /\ co_pc = "idle"
    /\ co_pc' = "dropped"
    /\ UNCHANGED <<co, co_stream, co_cstream, co_local, co_ret, co_items,
                   co_calls, upvars, devars, s3vars>>

\* A Compress that its consumer may drop at any time.
Teardown_Next ==
    \/ Compress_Next
    \/ Compress_drop

\* ------------------------------------------- either adapter, one at a time
\* State after construction of both adapters; the UploadParts has the largest
\* minimum part size, so that its accumulator can hold bytes across polls.
Adapters_Init ==
    /\ up = UploadParts_new(CHOOSE t \in Templates : t.bucket = "b0", MaxMin)
    /\ up_stream = Unpolled
    /\ up_pc = "idle"
    /\ up_ret = NotPolled
    /\ up_parts = <<>>
    /\ up_calls = 0
    /\ co = Compress_new
    /\ co_stream = Unpolled
    /\ co_cstream = NewSession
    /\ co_pc = "idle"
    /\ co_local = NoLocal
    /\ co_ret = NotPolled
    /\ co_items = <<>>
    /\ co_calls = 0
    /\ de = NotConstructed
    /\ de_seekable = EmptyFrame
    /\ de_pc = "new"
    /\ de_local = NoRead
    /\ de_ret = NotCalled
    /\ s3 = NotFetched(None, None)
    /\ s3_pc = "new"
    /\ s3_local = NoCall
    /\ s3_ret = NotCalled

\* The consumer drives one of the two adapters and leaves the other alone.
Adapters_Next ==
    \/ co_calls = 0 /\ UploadParts_Next
    \/ up_calls = 0 /\ Compress_Next

\* ------------------------------------------------------ SeekableDecompress
\* u64::MAX, i64::MIN, i64::MAX and usize::MAX on a target whose usize has
\* `bits` bits.
U64Max == 2^Bits - 1
I64Min == -(2^(Bits - 1))
I64Max == 2^(Bits - 1) - 1
UsizeMax(bits) == 2^bits - 1

\* The targets: usize narrower than u64, as wide, and wider.
UsizeWidths == {Bits - 1, Bits, Bits + 1}

\* u64::checked_add, u64::checked_sub
checked_add(a, b) == IF a + b <= U64Max THEN Some(a + b) ELSE None
checked_sub(a, b) == IF a - b >= 0 THEN Some(a - b) ELSE None

\* i64::wrapping_neg
wrapping_neg(k) == IF k = I64Min THEN I64Min ELSE -k

\* `k as u64` for an i64 k: the same bits read as unsigned.
as_u64(k) == k % 2^Bits

\* u64::try_from(n) for a usize n, and usize::try_from(n) for a u64 n.
u64_try_from(n) == IF n <= U64Max THEN Ok(n) ELSE Err("TryFromIntError")
usize_try_from(n, bits) == IF n <= UsizeMax(bits) THEN Ok(n) ELSE Err("TryFromIntError")

\* What the codec may report of a compressed object: no frame or MaxFrames
\* frames, and any offset and size of the last one.  Nothing is asked of an
\* object that Seekable::init rejects, nor of the frames of an object that has
\* none.
Seekables ==
    { s \in [ usize_bits : UsizeWidths,
              init_ok : BOOLEAN,
              num_frames : {0, MaxFrames},
              last_frame_start : 0..U64Max,
              last_frame_size : 0..UsizeMax(Bits + 1) ] :
        /\ s.last_frame_size <= UsizeMax(s.usize_bits)
        /\ ~s.init_ok => s.num_frames = 0
        /\ s.num_frames = 0 => s.last_frame_start = 0 /\ s.last_frame_size = 0 }

\* std::io::SeekFrom
SeekFrom ==
    [tag : {"Start"}, pos : 0..U64Max]
        \cup [tag : {"End", "Current"}, pos : I64Min..I64Max]

\* Mutant of new: the end of the last frame is computed with a wrapping add.
SeekableDecompress_new_wrapping(seekable) ==
    IF ~seekable.init_ok THEN Err("ZstdSeekable")
    ELSE IF seekable.num_frames = 0 THEN Err("NoFrames")
    ELSE LET last_frame_size == u64_try_from(seekable.last_frame_size)
         IN  IF ~last_frame_size.ok THEN Err("FrameTooLarge")
             ELSE Ok([decompressed_size |->
                          (seekable.last_frame_start + last_frame_size.val) % 2^Bits,
                      decompressed_position |-> 0])

\* SeekableDecompress::new: Ok(the struct) or Err(the Error).
SeekableDecompress_new(seekable) ==
    IF ~seekable.init_ok THEN Err("ZstdSeekable")
    ELSE IF seekable.num_frames = 0 THEN Err("NoFrames")
    ELSE LET last_frame_size == u64_try_from(seekable.last_frame_size)
         IN  IF ~last_frame_size.ok THEN Err("FrameTooLarge")
             ELSE LET r == checked_add(seekable.last_frame_start, last_frame_size.val)
                  IN  IF ~r.some THEN Err("DataTooLarge")
                      ELSE Ok([decompressed_size |-> r.val,
                               decompressed_position |-> 0])

\* Seekable::decompress(out, offset) when it wrote n bytes: the bytes of the
\* decompressed data from offset on, each named by its offset in the data.
seekable_decompress(offset, n) == [i \in 1..n |-> offset + i - 1]

\* Mutant of seek: SeekFrom::Start is taken from the cursor.
SeekableDecompress_seek_relative(this, pos) ==
    LET base_pos == IF pos.tag = "End" THEN this.decompressed_size
                    ELSE this.decompressed_position
        offset == pos.pos
        new_pos == IF offset >= 0
                   THEN checked_add(base_pos, as_u64(offset))
                   ELSE checked_sub(base_pos, as_u64(wrapping_neg(offset)))
    IN  IF new_pos.some
        THEN [this |-> [this EXCEPT !.decompressed_position = new_pos.val],
              ret |-> Ok(new_pos.val)]
        ELSE [this |-> this, ret |-> Err("InvalidInput")]

\* Mutant of seek: a position past the end of the data is refused.
SeekableDecompress_seek_bounded(this, pos) ==
    LET base_pos == IF pos.tag = "Start" THEN 0
                    ELSE IF pos.tag = "End" THEN this.decompressed_size
                    ELSE this.decompressed_position
        n == base_pos + pos.pos
    IN  IF 0 <= n /\ n <= this.decompressed_size
        THEN [this |-> [this EXCEPT !.decompressed_position = n], ret |-> Ok(n)]
        ELSE [this |-> this, ret |-> Err("InvalidInput")]

\* Mutant of seek: the new position is base_pos.wrapping_add(offset as u64).
SeekableDecompress_seek_wrapping(this, pos) ==
    LET base_pos == IF pos.tag = "Start" THEN 0
                    ELSE IF pos.tag = "End" THEN this.decompressed_size
                    ELSE this.decompressed_position
        n == (base_pos + as_u64(pos.pos)) % 2^Bits
    IN  [this |-> [this EXCEPT !.decompressed_position = n], ret |-> Ok(n)]

\* Seek::seek: the struct after the call and the value returned.
SeekableDecompress_seek(this, pos) ==
    IF pos.tag = "Start"
    THEN [this |-> [this EXCEPT !.decompressed_position = pos.pos],
          ret |-> Ok(pos.pos)]
    ELSE LET base_pos == IF pos.tag = "End" THEN this.decompressed_size
                         ELSE this.decompressed_position
             offset == pos.pos
             new_pos == IF offset >= 0
                        THEN checked_add(base_pos, as_u64(offset))
                        ELSE checked_sub(base_pos, as_u64(wrapping_neg(offset)))
         IN  IF new_pos.some
             THEN [this |-> [this EXCEPT !.decompressed_position = new_pos.val],
                   ret |-> Ok(new_pos.val)]
             ELSE [this |-> this, ret |-> Err("InvalidInput")]

\* Mutant of read: the whole buffer is handed to the codec, however little
\* data is left.
SeekableDecompress_read_begin_whole(this, buf_len, usize_bits) ==
    LET data_left == checked_sub(this.decompressed_size, this.decompressed_position)
    IN  IF ~(data_left.some /\ data_left.val > 0)
        THEN [ret |-> Some(Ok(0)), len |-> 0]
        ELSE IF buf_len = 0 THEN [ret |-> Some(Ok(0)), len |-> 0]
             ELSE [ret |-> None, len |-> buf_len]

\* Mutant of read: data_left is computed with a wrapping subtraction.
SeekableDecompress_read_begin_wrapping(this, buf_len, usize_bits) ==
    LET data_left == (this.decompressed_size - this.decompressed_position) % 2^Bits
    IN  IF data_left = 0
        THEN [ret |-> Some(Ok(0)), len |-> 0]
        ELSE LET d == usize_try_from(data_left, usize_bits)
                 len == IF d.ok /\ d.val < buf_len THEN d.val ELSE buf_len
             IN  IF len = 0 THEN [ret |-> Some(Ok(0)), len |-> 0]
                 ELSE [ret |-> None, len |-> len]

\* Read::read up to the seekable.decompress call, for a buffer of buf_len
\* bytes: ret is Some(the value returned) when read returns before the call,
\* and len is the length of the slice handed to the codec otherwise.
SeekableDecompress_read_begin(this, buf_len, usize_bits) ==
    LET data_left == checked_sub(this.decompressed_size, this.decompressed_position)
    IN  IF ~(data_left.some /\ data_left.val > 0)
        THEN [ret |-> Some(Ok(0)), len |-> 0]
        ELSE LET d == usize_try_from(data_left.val, usize_bits)
                 len == IF d.ok /\ d.val < buf_len THEN d.val ELSE buf_len
             IN  IF len = 0 THEN [ret |-> Some(Ok(0)), len |-> 0]
                 ELSE [ret |-> None, len |-> len]

\* Mutant of read: the cursor is not bumped.
SeekableDecompress_read_end_stay(this, res) ==
    IF ~res.ok THEN [this |-> this, ret |-> Err("Other(ZstdSeekable)")]
    ELSE [this |-> this, ret |-> Ok(res.val)]

\* Read::read after the seekable.decompress call returned res: the struct
\* after the call and the value returned.
SeekableDecompress_read_end(this, res) ==
    IF ~res.ok THEN [this |-> this, ret |-> Err("Other(ZstdSeekable)")]
    ELSE LET decompressed_bytes == u64_try_from(res.val)
         IN  IF ~decompressed_bytes.ok
             THEN [this |-> this, ret |-> Err("Other(DataTooLarge)")]
             ELSE LET p == checked_add(this.decompressed_position,
                                       decompressed_bytes.val)
                  IN  IF ~p.some
                      THEN [this |-> this, ret |-> Err("Other(DataTooLarge)")]
                      ELSE [this |-> [this EXCEPT !.decompressed_position = p.val],
                            ret |-> Ok(res.val)]

\* Before SeekableDecompress::new is called: any compressed object on any
\* target; the two adapters are left alone.
Decompress_Init ==
    /\ de = NotConstructed
    /\ de_seekable \in Seekables
    /\ de_pc = "new"
    /\ de_local = NoRead
    /\ de_ret = NotCalled
    /\ up = UploadParts_new(CHOOSE t \in Templates : t.bucket = "b0", 1)
    /\ up_stream = Unpolled
    /\ up_pc = "idle"
    /\ up_ret = NotPolled
    /\ up_parts = <<>>
    /\ up_calls = 0
    /\ co = Compress_new
    /\ co_stream = Unpolled
    /\ co_cstream = NewSession
    /\ co_pc = "idle"
    /\ co_local = NoLocal
    /\ co_ret = NotPolled
    /\ co_items = <<>>
    /\ co_calls = 0
    /\ s3 = NotFetched(None, None)
    /\ s3_pc = "new"
    /\ s3_local = NoCall
    /\ s3_ret = NotCalled

\* SeekableDecompress::new is called.
Decompress_new ==
    /\ de_pc = "new"
    /\ LET r == SeekableDecompress_new(de_seekable)
       IN  /\ de_ret' = [op |-> "new", res |-> r]
           /\ IF r.ok
              THEN de' = r.val /\ de_pc' = "idle"
              ELSE de' = de /\ de_pc' = "failed"
    /\ UNCHANGED <<de_seekable, de_local, upvars, covars, s3vars>>

\* seek is called with any SeekFrom.
Decompress_seek ==
    /\ de_pc = "idle"
    /\ \E pos \in SeekFrom :
         LET r == SeekableDecompress_seek(de, pos)
         IN  /\ de' = r.this
             /\ de_ret' = [op |-> "seek", arg |-> pos, res |-> r.ret]
    /\ UNCHANGED <<de_seekable, de_pc, de_local, upvars, covars, s3vars>>

\* read is called with a buffer of 0..MaxBuf bytes: it returns at once, or
\* gets to its seekable.decompress call.
Decompress_read ==
    /\ de_pc = "idle"
    /\ \E buf_len \in 0..MaxBuf :
         LET r == SeekableDecompress_read_begin(de, buf_len, de_seekable.usize_bits)
         IN  /\ buf_len <= UsizeMax(de_seekable.usize_bits)
             /\ IF r.ret.some
                THEN /\ de_ret' = [op |-> "read", arg |-> buf_len, res |-> r.ret.val,
                                   bytes |-> <<>>, prev |-> de_ret.op]
                     /\ UNCHANGED <<de_pc, de_local>>
                ELSE /\ de_pc' = "decompress"
                     /\ de_local' = [buf_len |-> buf_len,
                                     offset |-> de.decompressed_position,
                                     len |-> r.len]
                     /\ de_ret' = de_ret
    /\ UNCHANGED <<de, de_seekable, upvars, covars, s3vars>>

\* read returns with res, the result of its seekable.decompress call.
Decompress_return(res) ==
    /\ de_pc = "decompress"
    /\ LET r == SeekableDecompress_read_end(de, res)
       IN  /\ de' = r.this
           /\ de_ret' = [op |-> "read", arg |-> de_local.buf_len, res |-> r.ret,
                         bytes |-> IF res.ok
                                   THEN seekable_decompress(de_local.offset, res.val)
                                   ELSE <<>>,
                         prev |-> de_ret.op]
    /\ de_pc' = "idle"
    /\ de_local' = NoRead
    /\ UNCHANGED <<de_seekable, upvars, covars, s3vars>>

\* seekable.decompress succeeds: the codec wrote 0..len bytes of the slice.
Decompress_seekable_decompress_Ok ==
    \E n \in 0..de_local.len : Decompress_return(Ok(n))

\* seekable.decompress fails.
Decompress_seekable_decompress_Err ==
    \E e \in CodecErrors : Decompress_return(Err(e))

Decompress_Next ==
    \/ Decompress_new
    \/ Decompress_seek
    \/ Decompress_read
    \/ Decompress_seekable_decompress_Ok
    \/ Decompress_seekable_decompress_Err

\* ------------------------------------------- SeekableDecompress read to its end
\* The caller's loop has ended: new failed, or a read returned 0 or an error.
ReadLoop_done ==
    \/ de_pc = "failed"
    \/ /\ de_pc = "idle"
       /\ de_ret.op = "read"
       /\ ~de_ret.res.ok \/ de_ret.res = Ok(0)

\* The cursor at which the running loop of reads began, and the bytes its
\* reads have returned so far.
ReadLoop_start == IF de_ret.op = "read" THEN de_ret.start ELSE de.decompressed_position
ReadLoop_total == IF de_ret.op = "read" THEN de_ret.total ELSE 0

\* One seek, to anywhere, before the loop.
ReadLoop_seek == de_ret.op = "new" /\ Decompress_seek

\* The loop calls read with a buffer of 1..MaxBuf bytes: read returns at once,
\* or gets to its seekable.decompress call.
ReadLoop_read ==
    /\ de_pc = "idle"
    /\ ~ReadLoop_done
    /\ \E buf_len \in 1..MaxBuf :
         LET r == SeekableDecompress_read_begin(de, buf_len, de_seekable.usize_bits)
         IN  /\ buf_len <= UsizeMax(de_seekable.usize_bits)
             /\ IF r.ret.some
                THEN /\ de_ret' = [op |-> "read", arg |-> buf_len, res |-> r.ret.val,
                                   bytes |-> <<>>, prev |-> de_ret.op,
                                   start |-> ReadLoop_start,
                                   total |-> ReadLoop_total]
                     /\ UNCHANGED <<de_pc, de_local>>
                ELSE /\ de_pc' = "decompress"
                     /\ de_local' = [buf_len |-> buf_len,
                                     offset |-> de.decompressed_position,
                                     len |-> r.len]
                     /\ de_ret' = de_ret
    /\ UNCHANGED <<de, de_seekable, upvars, covars, s3vars>>

\* seekable.decompress succeeds and has written 1..len bytes of the slice; read
\* returns.
ReadLoop_seekable_decompress_Ok ==
    /\ de_pc = "decompress"
    /\ \E n \in 1..de_local.len :
         LET r == SeekableDecompress_read_end(de, Ok(n))
         IN  /\ de' = r.this
             /\ de_ret' = [op |-> "read", arg |-> de_local.buf_len, res |-> r.ret,
                           bytes |-> seekable_decompress(de_local.offset, n),
                           prev |-> de_ret.op,
                           start |-> IF de_ret.op = "read" THEN de_ret.start
                                     ELSE de_local.offset,
                           total |-> ReadLoop_total
                                       + IF r.ret.ok THEN r.ret.val ELSE 0]
    /\ de_pc' = "idle"
    /\ de_local' = NoRead
    /\ UNCHANGED <<de_seekable, upvars, covars, s3vars>>

ReadLoop_Next ==
    \/ Decompress_new
    \/ ReadLoop_seek
    \/ ReadLoop_read
    \/ ReadLoop_seekable_decompress_Ok

\* -------------------------------------------------------- SeekableS3Object
\* The decimal digits, and format!("{}", n) for an unsigned n as a sequence of
\* them.
Digits == <<"0", "1", "2", "3", "4", "5", "6", "7", "8", "9">>

RECURSIVE Decimal(_)
Decimal(n) ==
    IF n < 10 THEN <<Digits[n + 1]>>
    ELSE Decimal(n \div 10) \o <<Digits[(n % 10) + 1]>>

\* format!("bytes={}-", position), the Range header of a read's request.
FormatRange(position) == <<"bytes=">> \o Decimal(position) \o <<"-">>

\* The number a sequence of decimal digits denotes.
RECURSIVE ParseDecimal(_)
ParseDecimal(digits) ==
    IF digits = <<>> THEN 0
    ELSE 10 * ParseDecimal(SubSeq(digits, 1, Len(digits) - 1))
           + (CHOOSE d \in 0..9 : Digits[d + 1] = digits[Len(digits)])

\* The offset at which S3 starts the body it returns for a request: 0 without
\* a Range header, the first byte position of "bytes=<first>-" with one.
RangeStart(range) ==
    IF ~range.some THEN 0
    ELSE ParseDecimal(SubSeq(range.val, 2, Len(range.val) - 1))

\* The read timeouts a caller may configure.
Timeouts == {None, Some("duration")}

\* content_length of a GetObjectOutput: Option<i64>.
ContentLengths == {None} \cup {Some(n) : n \in I64Min..I64Max}

\* What a get_object future may come to: it completes late or in time for a
\* configured timeout, with an error or with an object that reports a content
\* length and may carry a body.
GetObjectOutcomes(lengths) ==
    [ late : BOOLEAN,
      res : {Err("GetObjectError")}
              \cup {Ok(o) : o \in [content_length : lengths, body : BOOLEAN]} ]

\* What a body.read(buf) future may come to when the body has `left` bytes
\* to yield: late or in time, an error or a number of bytes read.
BodyReadOutcomes(buf_len, left) ==
    [ late : BOOLEAN,
      res : {Err("BodyError")}
              \cup {Ok(n) : n \in 0..(IF buf_len <= left THEN buf_len ELSE left)} ]

\* Mutant of block_on: the future is awaited whatever the deadline.
block_on_unbounded(read_timeout, outcome) == outcome.res

\* runtime.block_on of a future, under tokio::time::timeout when a read
\* timeout is configured: Err("Elapsed") when the deadline passes first.
block_on(read_timeout, outcome) ==
    IF read_timeout.some /\ outcome.late THEN Err("Elapsed") ELSE outcome.res

\* u64::try_from(n) for an i64 n.
u64_try_from_i64(n) == IF n >= 0 THEN Ok(n) ELSE Err("TryFromIntError")

\* Mutant of new: the range of the caller's request is left in place.
SeekableS3Object_new_request_ranged(this) == this

\* SeekableS3Object::new up to its get_object call: the range of the request
\* is cleared.
SeekableS3Object_new_request(this) == [this EXCEPT !.req.range = None]

\* SeekableS3Object::new after block_on returned res for the request `range`:
\* Ok(the struct) or Err(the error).
SeekableS3Object_new(this, range, res) ==
    IF ~res.ok THEN res
    ELSE LET object == res.val
             body == IF object.body THEN Some([at |-> RangeStart(range)]) ELSE None
         IN  IF ~object.content_length.some THEN Err("Validation")
             ELSE LET length == u64_try_from_i64(object.content_length.val)
                  IN  IF ~length.ok THEN Err("Validation")
                      ELSE Ok([this EXCEPT !.position = 0,
                                           !.length = length.val,
                                           !.body = body])

\* Mutant of set_position: the body is kept whatever the position.
set_position_keep(this, new_position) ==
    [this EXCEPT !.position = new_position]

\* Mutant of set_position: the body is discarded whatever the position.
set_position_always(this, new_position) ==
    [this EXCEPT !.position = new_position, !.body = None]

\* SeekableS3Object::set_position
set_position(this, new_position) ==
    IF this.position # new_position
    THEN [this EXCEPT !.position = new_position, !.body = None]
    ELSE this

\* Mutant of seek: a seek that is refused closes the body.
SeekableS3Object_seek_closing(this, pos) ==
    IF pos.tag = "Start"
    THEN [this |-> set_position(this, pos.pos), ret |-> Ok(pos.pos)]
    ELSE LET base_pos == IF pos.tag = "End" THEN this.length ELSE this.position
             offset == pos.pos
             new_pos == IF offset >= 0
                        THEN checked_add(base_pos, as_u64(offset))
                        ELSE checked_sub(base_pos, as_u64(wrapping_neg(offset)))
         IN  IF new_pos.some
             THEN [this |-> set_position(this, new_pos.val),
                   ret |-> Ok(set_position(this, new_pos.val).position)]
             ELSE [this |-> [this EXCEPT !.body = None], ret |-> Err("InvalidInput")]

\* Seek::seek of SeekableS3Object: the struct after the call and the value
\* returned.
SeekableS3Object_seek(this, pos) ==
    IF pos.tag = "Start"
    THEN [this |-> set_position(this, pos.pos), ret |-> Ok(pos.pos)]
    ELSE LET base_pos == IF pos.tag = "End" THEN this.length ELSE this.position
             offset == pos.pos
             new_pos == IF offset >= 0
                        THEN checked_add(base_pos, as_u64(offset))
                        ELSE checked_sub(base_pos, as_u64(wrapping_neg(offset)))
         IN  IF new_pos.some
             THEN [this |-> set_position(this, new_pos.val),
                   ret |-> Ok(set_position(this, new_pos.val).position)]
             ELSE [this |-> this, ret |-> Err("InvalidInput")]

\* Mutant of read: the request is issued with the range it already had.
SeekableS3Object_read_unranged(this) ==
    IF this.position >= this.length THEN [this |-> this, to |-> "return"]
    ELSE IF this.body.some THEN [this |-> this, to |-> "body"]
    ELSE [this |-> this, to |-> "fetch"]

\* Mutant of read: the end of the object is not checked for.
SeekableS3Object_read_unchecked(this) ==
    IF this.body.some THEN [this |-> this, to |-> "body"]
    ELSE [this |-> [this EXCEPT !.req.range = Some(FormatRange(this.position))],
          to |-> "fetch"]

\* Read::read of SeekableS3Object up to its first wait: it returns Ok(0) at
\* once ("return"), goes to read_body ("body"), or sets the range of its
\* request and issues it ("fetch").
SeekableS3Object_read(this) ==
    IF this.position >= this.length THEN [this |-> this, to |-> "return"]
    ELSE IF this.body.some THEN [this |-> this, to |-> "body"]
    ELSE [this |-> [this EXCEPT !.req.range = Some(FormatRange(this.position))],
          to |-> "fetch"]

\* Read::read after block_on returned res for the request `range`: the
\* returned body is stored and read_body is entered, or the error returned.
SeekableS3Object_read_object(this, range, res) ==
    IF ~res.ok
    THEN [this |-> this,
          ret |-> Some(Err(IF res.err = "Elapsed" THEN "TimedOut" ELSE "Other"))]
    ELSE [this |-> [this EXCEPT !.body = IF res.val.body
                                         THEN Some([at |-> RangeStart(range)])
                                         ELSE None],
          ret |-> None]

\* Mutant of read_body: a read that failed counts one byte as consumed.
read_body_optimistic(this, res) ==
    IF ~res.ok
    THEN [this |-> [this EXCEPT !.position = (@ + 1) % 2^Bits],
          ret |-> Err(IF res.err = "Elapsed" THEN "TimedOut" ELSE res.err)]
    ELSE [this |-> [this EXCEPT !.position = (@ + res.val) % 2^Bits,
                                !.body = Some([at |-> this.body.val.at + res.val])],
          ret |-> Ok(res.val)]

\* Mutant of read_body: the bytes read are not added to position.
read_body_unmoved(this, res) ==
    IF ~res.ok
    THEN [this |-> this,
          ret |-> Err(IF res.err = "Elapsed" THEN "TimedOut" ELSE res.err)]
    ELSE [this |-> [this EXCEPT !.body = Some([at |-> this.body.val.at + res.val])],
          ret |-> Ok(res.val)]

\* Mutant of read_body: a body whose read failed is dropped, so that the next
\* read issues a get_object of its own accord.
read_body_reopen(this, res) ==
    IF ~res.ok
    THEN [this |-> [this EXCEPT !.body = None],
          ret |-> Err(IF res.err = "Elapsed" THEN "TimedOut" ELSE res.err)]
    ELSE [this |-> [this EXCEPT !.position = (@ + res.val) % 2^Bits,
                                !.body = Some([at |-> this.body.val.at + res.val])],
          ret |-> Ok(res.val)]

\* read_body after block_on returned res for body.read(buf): the struct
\* after it (the body has yielded the bytes read) and the value returned.
read_body(this, res) ==
    IF ~res.ok
    THEN [this |-> this,
          ret |-> Err(IF res.err = "Elapsed" THEN "TimedOut" ELSE res.err)]
    ELSE [this |-> [this EXCEPT !.position = (@ + res.val) % 2^Bits,
                                !.body = Some([at |-> this.body.val.at + res.val])],
          ret |-> Ok(res.val)]

\* Before SeekableS3Object::new is called: a request with or without a range,
\* with or without a read timeout; the other components are left alone.
S3_Init ==
    /\ \E range \in {None, Some(FormatRange(1))}, read_timeout \in Timeouts :
          s3 = NotFetched(range, read_timeout)
    /\ s3_pc = "new"
    /\ s3_local = NoCall
    /\ s3_ret = NotCalled
    /\ de = NotConstructed
    /\ de_seekable = EmptyFrame
    /\ de_pc = "new"
    /\ de_local = NoRead
    /\ de_ret = NotCalled
    /\ up = UploadParts_new(CHOOSE t \in Templates : t.bucket = "b0", 1)
    /\ up_stream = Unpolled
    /\ up_pc = "idle"
    /\ up_ret = NotPolled
    /\ up_parts = <<>>
    /\ up_calls = 0
    /\ co = Compress_new
    /\ co_stream = Unpolled
    /\ co_cstream = NewSession
    /\ co_pc = "idle"
    /\ co_local = NoLocal
    /\ co_ret = NotPolled
    /\ co_items = <<>>
    /\ co_calls = 0

\* new is called: it clears the range and issues its get_object.
S3_new ==
    /\ s3_pc = "new"
    /\ s3' = SeekableS3Object_new_request(s3)
    /\ s3_pc' = "new_fetch"
    /\ s3_local' = [buf_len |-> 0, fetches |-> 1, range |-> s3'.req.range,
                    late |-> FALSE]
    /\ UNCHANGED <<s3_ret, upvars, covars, devars>>

\* The get_object of new comes to an end, and new returns.
S3_new_get_object ==
    /\ s3_pc = "new_fetch"
    /\ \E outcome \in GetObjectOutcomes(ContentLengths) :
         LET got == block_on(s3.read_timeout, outcome)
             r == SeekableS3Object_new(s3, s3_local.range, got)
         IN  /\ s3_ret' = [op |-> "new", res |-> r, fetches |-> s3_local.fetches,
                           got |-> got]
             /\ IF r.ok
                THEN s3' = r.val /\ s3_pc' = "idle"
                ELSE s3' = s3 /\ s3_pc' = "failed"
    /\ s3_local' = NoCall
    /\ UNCHANGED <<upvars, covars, devars>>

\* set_read_timeout is called.
S3_set_read_timeout ==
    /\ s3_pc = "idle"
    /\ \E read_timeout \in Timeouts : s3' = [s3 EXCEPT !.read_timeout = read_timeout]
    /\ UNCHANGED <<s3_pc, s3_local, s3_ret, upvars, covars, devars>>

\* seek is called with any SeekFrom.
S3_seek ==
    /\ s3_pc = "idle"
    /\ \E pos \in SeekFrom :
         LET r == SeekableS3Object_seek(s3, pos)
         IN  /\ s3' = r.this
             /\ s3_ret' = [op |-> "seek", res |-> r.ret, fetches |-> 0,
                           moved |-> r.this.position # s3.position,
                           after_failed_read |-> s3_ret.op = "read" /\ ~s3_ret.res.ok]
    /\ UNCHANGED <<s3_pc, s3_local, upvars, covars, devars>>

\* read is called with a buffer of 0..MaxBuf bytes.
S3_read ==
    /\ s3_pc = "idle"
    /\ \E buf_len \in 0..MaxBuf :
         LET r == SeekableS3Object_read(s3)
         IN  /\ s3' = r.this
             /\ IF r.to = "return"
                THEN /\ s3_ret' = [op |-> "read", res |-> Ok(0), fetches |-> 0,
                                   late |-> FALSE]
                     /\ UNCHANGED <<s3_pc, s3_local>>
                ELSE /\ s3_pc' = r.to
                     /\ s3_local' = [buf_len |-> buf_len,
                                     fetches |-> IF r.to = "fetch" THEN 1 ELSE 0,
                                     range |-> IF r.to = "fetch" THEN r.this.req.range
                                               ELSE None,
                                     late |-> FALSE]
                     /\ s3_ret' = s3_ret
    /\ UNCHANGED <<upvars, covars, devars>>

\* The get_object of read comes to an end: read returns its error, goes on to
\* read_body with the body returned, or returns Ok(0) when there is none.
S3_read_get_object ==
    /\ s3_pc = "fetch"
    /\ \E outcome \in GetObjectOutcomes({None}) :
         LET r == SeekableS3Object_read_object(s3, s3_local.range,
                                               block_on(s3.read_timeout, outcome))
         IN  /\ s3' = r.this
             /\ IF r.ret.some
                THEN /\ s3_ret' = [op |-> "read", res |-> r.ret.val,
                                   fetches |-> s3_local.fetches,
                                   late |-> outcome.late]
                     /\ s3_pc' = "idle"
                     /\ s3_local' = NoCall
                ELSE IF r.this.body.some
                THEN /\ s3_pc' = "body"
                     /\ s3_local' = [s3_local EXCEPT !.late = outcome.late]
                     /\ s3_ret' = s3_ret
                ELSE /\ s3_ret' = [op |-> "read", res |-> Ok(0),
                                   fetches |-> s3_local.fetches,
                                   late |-> outcome.late]
                     /\ s3_pc' = "idle"
                     /\ s3_local' = NoCall
    /\ UNCHANGED <<upvars, covars, devars>>

\* The body.read of read_body comes to an end, and read returns.
S3_body_read ==
    /\ s3_pc = "body"
    /\ \E outcome \in BodyReadOutcomes(s3_local.buf_len,
                                       s3.length - s3.body.val.at) :
         LET r == read_body(s3, block_on(s3.read_timeout, outcome))
         IN  /\ s3' = r.this
             /\ s3_ret' = [op |-> "read", res |-> r.ret, fetches |-> s3_local.fetches,
                           late |-> s3_local.late \/ outcome.late]
    /\ s3_pc' = "idle"
    /\ s3_local' = NoCall
    /\ UNCHANGED <<upvars, covars, devars>>

S3_Next ==
    \/ S3_new
    \/ S3_new_get_object
    \/ S3_set_read_timeout
    \/ S3_seek
    \/ S3_read
    \/ S3_read_get_object
    \/ S3_body_read

\* ------------------------------------------------ both readers, in sequence
\* A SeekableDecompress of one frame of one byte that was read to its end and
\* then refused a seek to before its start.
Readers_Parked ==
    /\ de_pc = "idle"
    /\ de_seekable = [usize_bits |-> Bits, init_ok |-> TRUE,
                      num_frames |-> MaxFrames, last_frame_start |-> 0,
                      last_frame_size |-> 1]
    /\ de.decompressed_position = 1
    /\ de_ret.op = "seek"
    /\ de_ret.arg = [tag |-> "Current", pos |-> I64Min]
    /\ ~de_ret.res.ok

\* Before either reader is constructed: any compressed object on a target
\* whose usize is as wide as u64 with a plain request, or the empty frame with
\* any request.
Readers_Init ==
    /\ \/ /\ de_seekable \in {x \in Seekables : x.usize_bits = Bits}
          /\ s3 = NotFetched(None, None)
       \/ /\ de_seekable = EmptyFrame
          /\ \E range \in {None, Some(FormatRange(1))}, read_timeout \in Timeouts :
                s3 = NotFetched(range, read_timeout)
    /\ de = NotConstructed
    /\ de_pc = "new"
    /\ de_local = NoRead
    /\ de_ret = NotCalled
    /\ s3_pc = "new"
    /\ s3_local = NoCall
    /\ s3_ret = NotCalled
    /\ up = UploadParts_new(CHOOSE t \in Templates : t.bucket = "b0", 1)
    /\ up_stream = Unpolled
    /\ up_pc = "idle"
    /\ up_ret = NotPolled
    /\ up_parts = <<>>
    /\ up_calls = 0
    /\ co = Compress_new
    /\ co_stream = Unpolled
    /\ co_cstream = NewSession
    /\ co_pc = "idle"
    /\ co_local = NoLocal
    /\ co_ret = NotPolled
    /\ co_items = <<>>
    /\ co_calls = 0

\* The SeekableDecompress is used until the SeekableS3Object is constructed;
\* the SeekableS3Object is used on its own or after the SeekableDecompress.
Readers_Next ==
    \/ s3_pc = "new" /\ Decompress_Next
    \/ /\ \/ de_pc = "new" /\ de_seekable = EmptyFrame
          \/ Readers_Parked
       /\ S3_Next

\* --------------------------------------------------------- specifications

\* An UploadParts driven by its consumer and its upstream.
SpecUploadParts == UploadParts_Init /\ [][UploadParts_Next]_vars

\* An UploadParts fed non-empty fragments and closed.
SpecFeed == Feed_Init /\ [][Feed_Next]_vars

\* A Compress driven by its consumer, its upstream and the codec.
SpecCompress == Compress_Init /\ [][Compress_Next]_vars

\* A Compress driven as in SpecCompress with a codec that does not fail.
SpecCompressOk == Compress_Init /\ [][CompressOk_Next]_vars

\* A Compress whose consumer keeps demanding, whose upstream comes to its end,
\* and whose codec does not fail, consumes input at every call and comes to
\* write nothing when flushed; every call that is made returns.
SpecCompressLive == Compress_Init /\ [][Live_Next]_vars /\ WF_vars(Live_Next)

\* A SeekableDecompress constructed, then sought and read at will.
SpecDecompress == Decompress_Init /\ [][Decompress_Next]_vars

\* A SeekableS3Object constructed, then sought and read at will.
SpecS3 == S3_Init /\ [][S3_Next]_vars

\* A SeekableDecompress sought once and then read until read returns 0, with
\* a codec that writes at least one byte and does not fail; the loop goes on
\* calling read and the codec returns.
SpecReadLoop ==
    Decompress_Init /\ [][ReadLoop_Next]_vars /\ WF_vars(ReadLoop_Next)

\* A SeekableDecompress and a SeekableS3Object, one used after the other.
SpecReaders == Readers_Init /\ [][Readers_Next]_vars

\* A Compress driven as in SpecCompress and dropped at some point.
SpecTeardown == Compress_Init /\ [][Teardown_Next]_vars

\* An UploadParts or a Compress, whichever the consumer drives.
SpecAdapters == Adapters_Init /\ [][Adapters_Next]_vars

\* ---------------------------------------------------- Compress: properties
\* The step is a poll of the upstream of Compress answered with `tag`.
CoUpstreamAnswers(tag) ==
    /\ co_stream'.polls = co_stream.polls + 1
    /\ co_stream'.last.tag = tag

\* The step is a call of Compress::poll_next.
CompressCalled == co_calls' = co_calls + 1

\* The bytes the codec wrote in the step.
CodecWrote == Chunk(co_cstream.out, co_cstream'.out - co_cstream.out)

\* C1: once Compress::poll_next has returned Ready(None), every later step is
\* a poll_next call that returns Ready(None) at once: the upstream is not
\* polled, the codec is not called and nothing is emitted.
C1_TerminalAfterNone ==
    [][co_ret = ReadyNone =>
         /\ CompressCalled
         /\ co_ret' = ReadyNone
         /\ co_pc' = "idle"
         /\ co_stream' = co_stream
         /\ co_cstream' = co_cstream
         /\ co_items' = co_items]_vars

\* The drain emitted a final item, and a later demand returned Ready(None).
C1_Witness ==
    /\ co_ret = ReadyNone
    /\ co.wrote_seek_table
    /\ co_cstream.compress_calls = 0
    /\ co_items # <<>>

\* C10: no Ok item emitted by Compress is empty.  An empty chunk is not
\* handed to the codec and the loop goes round; a chunk the codec consumed
\* without output is not emitted and the loop goes round; a drain of zero
\* bytes returns Ready(None), and any other drain its bytes.
C10_NoEmptyItem ==
    /\ [](/\ \A i \in 1..Len(co_items) : co_items[i] # <<>>
          /\ co_ret.tag = "Ok" => co_ret.val # <<>>)
    /\ [][(CoUpstreamAnswers("Ok") /\ co_stream'.last.val = <<>>) =>
            /\ co_cstream' = co_cstream
            /\ co_pc' = "loop"
            /\ co_ret' = co_ret
            /\ co_items' = co_items]_vars
    /\ [][(/\ co_pc = "compress_input"
           /\ co_pc' # "compress_input"
           /\ co_local.compressed_bytes \o CodecWrote = <<>>) =>
            \/ /\ co_pc' = "loop"
               /\ co_ret' = co_ret
               /\ co_items' = co_items
            \/ /\ co_ret'.tag = "Err"
               /\ co_items' = co_items]_vars
    /\ [][(~co.wrote_seek_table /\ co'.wrote_seek_table) =>
            IF co_local.compressed_bytes = <<>>
            THEN co_ret' = ReadyNone /\ co_items' = co_items
            ELSE /\ co_ret' = ReadyOk(co_local.compressed_bytes)
                 /\ co_items' = Append(co_items, co_local.compressed_bytes)]_vars

\* The codec consumed a non-empty chunk without output and the loop is about
\* to poll the upstream again, in the same demand.
C10_Witness ==
    /\ co_pc = "loop"
    /\ co_stream.last.tag = "Ok"
    /\ co_stream.last.val # <<>>
    /\ co_cstream.compress_calls >= 1
    /\ co_cstream.out = 0

\* ------------------------------------------------- UploadParts: properties
\* The bytes of a part, the number of bytes of the parts of a sequence.
Body(part) == part.body.val

RECURSIVE TotalLen(_)
TotalLen(parts) ==
    IF parts = <<>> THEN 0 ELSE Len(Body(Head(parts))) + TotalLen(Tail(parts))

IsPrefix(s, t) == Len(s) <= Len(t) /\ SubSeq(t, 1, Len(s)) = s

\* The step is a poll of the upstream of UploadParts answered with `tag`.
UpstreamAnswers(tag) ==
    /\ up_stream'.polls = up_stream.polls + 1
    /\ up_stream'.last.tag = tag

\* The step is a call of UploadParts::poll_next.
UploadPartsCalled == up_calls' = up_calls + 1

\* C2: once the upstream of UploadParts has reported end-of-input, every
\* later step is a poll_next call that returns Ready(None) at once: the
\* upstream is not polled again and no further part is emitted.
C2_TerminalAfterEnd ==
    [][up_stream.ended =>
         /\ UploadPartsCalled
         /\ up_ret' = ReadyNone
         /\ up_pc' = "idle"
         /\ up_stream' = up_stream
         /\ up_parts' = up_parts]_vars

\* The end-of-input demand emitted a short final part and a later demand
\* returned Ready(None).
C2_Witness ==
    /\ up_stream.ended
    /\ up_ret = ReadyNone
    /\ up_parts # <<>>
    /\ Len(Body(up_parts[Len(up_parts)])) < up.minimum_part_size

\* C3: the k-th part emitted by UploadParts carries part_number k, and the
\* next number to hand out is one more than the number of parts emitted.
C3_PartNumbers ==
    /\ \A k \in 1..Len(up_parts) : up_parts[k].part_number = k
    /\ up.next_part_number = Len(up_parts) + 1

\* Three parts have been emitted and the last demand returned an upstream error.
C3_Witness == Len(up_parts) >= 3 /\ up_ret.tag = "Err"

\* C4: every part emitted by UploadParts has at least minimum_part_size
\* bytes, except possibly the last one when it was emitted at end-of-input.
C4_MinimumSize ==
    \A k \in 1..Len(up_parts) :
        \/ Len(Body(up_parts[k])) >= up.minimum_part_size
        \/ k = Len(up_parts) /\ up_stream.ended

\* A part longer than the minimum is followed by a short final part.
C4_Witness ==
    /\ Len(up_parts) >= 2
    /\ up_stream.ended
    /\ Len(Body(up_parts[1])) > up.minimum_part_size
    /\ Len(Body(up_parts[Len(up_parts)])) < up.minimum_part_size

\* Every fragment handed out is shorter than minimum_part_size.
SmallPieces ==
    \A c \in up_stream.cuts \cup {0} :
        \/ c = up_stream.sent
        \/ \E d \in up_stream.cuts : c < d /\ d - c < up.minimum_part_size

\* The upstream has been closed after fragments of 3 x minimum_part_size bytes.
FedThreeMinimums ==
    /\ up_stream.ended
    /\ up_stream.sent = 3 * up.minimum_part_size

\* C5 as stated (with every fragment non-empty and shorter than the minimum,
\* and the minimum at least 1): fragments summing to 3 x minimum_part_size
\* yield exactly 3 parts numbered 1, 2, 3, none empty.
C5_Original ==
    (FedThreeMinimums /\ SmallPieces) =>
        /\ Len(up_parts) = 3
        /\ \A k \in 1..Len(up_parts) :
               up_parts[k].part_number = k /\ Body(up_parts[k]) # <<>>

\* C5 amended: fragments summing to 3 x minimum_part_size yield 1 to 3 parts,
\* numbered from 1 without a gap and none empty; they yield exactly 3 parts
\* of minimum_part_size bytes each when the offsets minimum_part_size and
\* 2 x minimum_part_size are fragment boundaries.
C5_Amended ==
    FedThreeMinimums =>
        /\ Len(up_parts) \in 1..3
        /\ \A k \in 1..Len(up_parts) :
               up_parts[k].part_number = k /\ Body(up_parts[k]) # <<>>
        /\ {up.minimum_part_size, 2 * up.minimum_part_size} \subseteq up_stream.cuts =>
               /\ Len(up_parts) = 3
               /\ \A k \in 1..3 : Len(Body(up_parts[k])) = up.minimum_part_size

\* Small fragments with boundaries at both multiples of the minimum gave
\* three parts.
C5_Witness ==
    /\ FedThreeMinimums
    /\ SmallPieces
    /\ up.minimum_part_size >= 3
    /\ {up.minimum_part_size, 2 * up.minimum_part_size} \subseteq up_stream.cuts
    /\ Len(up_parts) = 3

\* C6: in the step where the upstream reports end-of-input, UploadParts sets
\* finished and returns: with pending bytes, one final part holding all of
\* them (whatever their number) under the next part number; with none,
\* Ready(None) and no part.  So minimum_part_size - 1 >= 1 bytes and then
\* end-of-input give exactly one part of that size, numbered 1.
C6_EndOfInput ==
    /\ [][UpstreamAnswers("None") =>
            /\ up'.finished
            /\ up_pc' = "idle"
            /\ up'.input = <<>>
            /\ IF up.input # <<>>
               THEN /\ Len(up_parts') = Len(up_parts) + 1
                    /\ SubSeq(up_parts', 1, Len(up_parts)) = up_parts
                    /\ Body(up_parts'[Len(up_parts')]) = up.input
                    /\ up_parts'[Len(up_parts')].part_number = up.next_part_number
                    /\ up_ret' = ReadyOk(up_parts'[Len(up_parts')])
               ELSE /\ up_parts' = up_parts
                    /\ up_ret' = ReadyNone]_vars
    /\ []((/\ up_stream.ended
           /\ up_stream.sent >= 1
           /\ up_stream.sent = up.minimum_part_size - 1) =>
              /\ Len(up_parts) = 1
              /\ Len(Body(up_parts[1])) = up.minimum_part_size - 1
              /\ up_parts[1].part_number = 1)

\* minimum_part_size - 1 bytes were fed and the end-of-input demand returned
\* the one part.
C6_Witness ==
    /\ up_stream.ended
    /\ up_stream.sent >= 1
    /\ up_stream.sent = up.minimum_part_size - 1
    /\ up_ret.tag = "Ok"
    /\ Len(up_parts) = 1

\* C7: in the step where the upstream yields a chunk, UploadParts either
\* emits one part whose body is the whole accumulator (pending followed by
\* the chunk: every byte handed out since the previous part) and is left with
\* nothing pending, when that accumulator has reached minimum_part_size; or
\* emits nothing, keeps the accumulator and stays in the loop.
C7_NoClip ==
    [][UpstreamAnswers("Ok") =>
         LET acc == up.input \o up_stream'.last.val
         IN  IF Len(acc) >= up.minimum_part_size
             THEN /\ Len(up_parts') = Len(up_parts) + 1
                  /\ SubSeq(up_parts', 1, Len(up_parts)) = up_parts
                  /\ Body(up_parts'[Len(up_parts')]) = acc
                  /\ acc = Chunk(TotalLen(up_parts),
                                 up_stream'.sent - TotalLen(up_parts))
                  /\ up_ret' = ReadyOk(up_parts'[Len(up_parts')])
                  /\ up'.input = <<>>
                  /\ up_pc' = "idle"
             ELSE /\ up_parts' = up_parts
                  /\ up_ret' = up_ret
                  /\ up'.input = acc
                  /\ up_pc' = "loop"]_vars

\* A part longer than a minimum of at least 1 has just been returned.
C7_Witness ==
    /\ up.minimum_part_size >= 1
    /\ up_stream.last.tag = "Ok"
    /\ up_ret.tag = "Ok"
    /\ Len(Body(up_ret.val)) > up.minimum_part_size
    /\ up.input = <<>>

\* The fields part_from_buffer copies from the template.
CopiedFields ==
    { "bucket", "content_md5", "expected_bucket_owner", "key", "request_payer",
      "sse_customer_algorithm", "sse_customer_key", "sse_customer_key_md5",
      "upload_id" }

\* C8 as stated: every emitted part has the template's value in every field
\* but body and part_number, content_length included.
C8_Original ==
    \A k \in 1..Len(up_parts) :
        \A f \in CopiedFields \cup {"content_length"} :
            up_parts[k][f] = up.part_template[f]

\* C8 amended: every emitted part has the template's value in every field
\* but body, part_number and content_length; its content_length is None
\* whatever the template's is.
C8_Amended ==
    \A k \in 1..Len(up_parts) :
        /\ \A f \in CopiedFields : up_parts[k][f] = up.part_template[f]
        /\ up_parts[k].content_length = None

\* A part was emitted from a template that sets content_length and the
\* optional fields.
C8_Witness ==
    /\ up_parts # <<>>
    /\ up.part_template.content_length.some
    /\ up.part_template.sse_customer_key.some

\* C9: in the step where the upstream yields an error, UploadParts returns
\* that error and changes nothing of itself (finished, pending and
\* next_part_number included) and emits no part; the demand after an error
\* enters the loop, where the upstream is polled; and pending bytes are never
\* dropped: they stay pending or open the next emitted part.
C9_ErrorForwarded ==
    /\ [][UpstreamAnswers("Err") =>
            /\ up_ret' = ReadyErr(up_stream'.last.err)
            /\ up' = up
            /\ ~up'.finished
            /\ up_parts' = up_parts
            /\ up_pc' = "idle"]_vars
    /\ [][(up_ret.tag = "Err" /\ UploadPartsCalled) => up_pc' = "loop"]_vars
    /\ [][IF Len(up_parts') > Len(up_parts)
          THEN IsPrefix(up.input, Body(up_parts'[Len(up_parts')]))
          ELSE IsPrefix(up.input, up'.input)]_vars

\* An error was returned while bytes were pending and after a part.
C9_Witness ==
    /\ up_ret.tag = "Err"
    /\ up.input # <<>>
    /\ up_parts # <<>>
    /\ ~up.finished

\* The step is a call of the codec's end_stream (the flush step).
FlushCalled == co_cstream'.end_stream_calls = co_cstream.end_stream_calls + 1

\* The last n bytes the codec has written.
LastWritten(n) == Chunk(co_cstream.out - n, n)

\* C12: when the upstream reports end-of-input, Compress enters the flush
\* with nothing accumulated; every flush call that writes bytes appends them
\* to the accumulated output and is followed by another call; the flush call
\* that writes 0 bytes sets wrote_seek_table and, in the same poll_next call,
\* returns the accumulated output as one item when it is non-empty and
\* Ready(None) when it is empty.  The accumulated output is the codec's output
\* since the end-of-input, in call order.
C12_FlushOnEnd ==
    /\ [][CoUpstreamAnswers("None") =>
            /\ co_pc' = "end_stream"
            /\ co_local' = NoLocal
            /\ co_calls' = co_calls]_vars
    /\ [](co_pc = "end_stream" =>
            /\ co_stream.last = ReadyNone
            /\ ~co.wrote_seek_table
            /\ Len(co_local.compressed_bytes) <= co_cstream.out
            /\ co_local.compressed_bytes = LastWritten(Len(co_local.compressed_bytes)))
    /\ [][FlushCalled /\ co_cstream'.last.val.ok =>
            /\ co_pc = "end_stream"
            /\ co_calls' = co_calls
            /\ co_stream' = co_stream
            /\ IF co_cstream'.last.val.val > 0
               THEN /\ co_pc' = "end_stream"
                    /\ co_local'.compressed_bytes = co_local.compressed_bytes \o CodecWrote
                    /\ co' = co
                    /\ co_items' = co_items
               ELSE /\ co_pc' = "idle"
                    /\ co'.wrote_seek_table
                    /\ IF co_local.compressed_bytes = <<>>
                       THEN co_ret' = ReadyNone /\ co_items' = co_items
                       ELSE /\ co_ret' = ReadyOk(co_local.compressed_bytes)
                            /\ co_items' = Append(co_items, co_local.compressed_bytes)]_vars

\* The first demand saw end-of-input, two flush calls wrote bytes and the
\* third wrote none: the output of both is the one item emitted.
C12_Witness ==
    /\ co.wrote_seek_table
    /\ co_calls = 1
    /\ co_stream.last = ReadyNone
    /\ co_cstream.compress_calls = 0
    /\ co_cstream.end_stream_calls = 3
    /\ co_cstream.last = Some(Ok(0))
    /\ co_cstream.out >= 2
    /\ co_ret = ReadyOk(LastWritten(co_cstream.out))
    /\ co_items = <<LastWritten(co_cstream.out)>>

\* The step is the first flush call of a flush sequence.
FlushStarted == FlushCalled /\ co_local.compressed_bytes = <<>>

\* C13 as stated: wrote_seek_table starts false, is set once and stays set,
\* and a flush sequence is started at most once in an execution.
C13_Original ==
    /\ [](co_calls = 0 => ~co.wrote_seek_table)
    /\ [][co.wrote_seek_table => co'.wrote_seek_table]_vars
    /\ [][FlushStarted => co_cstream.end_stream_calls = 0]_vars

\* C13: wrote_seek_table starts false; it is set only by the flush call that
\* writes 0 bytes and is never cleared; once it is set the codec is not called
\* again, so a flush sequence that has completed is never followed by another
\* one.  (A flush sequence that a codec error cut short leaves the flag
\* unset, and is started again when the upstream reports end-of-input again.)
C13_Amended ==
    /\ [](co_calls = 0 => ~co.wrote_seek_table)
    /\ [][co.wrote_seek_table => co'.wrote_seek_table]_vars
    /\ [][co'.wrote_seek_table # co.wrote_seek_table =>
            FlushCalled /\ co_cstream'.last = Some(Ok(0))]_vars
    /\ [][co.wrote_seek_table => co_cstream' = co_cstream]_vars
    /\ [][FlushStarted /\ co_cstream.end_stream_calls > 0 =>
            ~co.wrote_seek_table /\ co_calls > 1]_vars

\* The first demand's flush failed at its first call; the second demand saw
\* end-of-input again, flushed again and finished.
C13_Witness ==
    /\ co.wrote_seek_table
    /\ co_calls = 2
    /\ co_stream.polls = 2
    /\ co_cstream.compress_calls = 0
    /\ co_cstream.end_stream_calls = 2
    /\ co_ret = ReadyNone

\* The step is a call of the codec, compress or end_stream.
CodecCalled ==
    co_cstream'.compress_calls + co_cstream'.end_stream_calls
        = co_cstream.compress_calls + co_cstream.end_stream_calls + 1

\* C14: a codec call that fails, in compress_input or in end_stream, makes
\* poll_next return the error as an item and leaves wrote_seek_table unset;
\* the poll_next call after an error item enters the loop, where the next
\* thing done is a poll of the upstream, whatever the upstream reported
\* before; and the session is the one the earlier calls used.
C14_CodecError ==
    /\ [][CodecCalled /\ ~co_cstream'.last.val.ok =>
            /\ co_ret' = ReadyErr(co_cstream'.last.val.err)
            /\ co_pc' = "idle"
            /\ co_calls' = co_calls
            /\ co_items' = co_items
            /\ ~co'.wrote_seek_table]_vars
    /\ [](co_ret.tag = "Err" => ~co.wrote_seek_table)
    /\ [][CompressCalled /\ co_ret.tag = "Err" => co_pc' = "loop"]_vars
    /\ [][co_pc = "loop" => co_stream'.polls = co_stream.polls + 1]_vars
    /\ [][/\ co_cstream'.compress_calls >= co_cstream.compress_calls
          /\ co_cstream'.end_stream_calls >= co_cstream.end_stream_calls
          /\ co_cstream'.out >= co_cstream.out]_vars

\* The flush of the first demand failed at its first call; the second demand
\* polled the upstream after it had ended, saw end-of-input again and called
\* the codec again, which failed again.
C14_Witness ==
    /\ co_pc = "idle"
    /\ co_ret.tag = "Err"
    /\ co_calls = 2
    /\ co_stream.polls = 2
    /\ co_stream.ended
    /\ co_cstream.compress_calls = 0
    /\ co_cstream.end_stream_calls = 2
    /\ ~co.wrote_seek_table

\* The step drops the Compress.
CompressDropped == co_pc # "dropped" /\ co_pc' = "dropped"

\* C15: dropping a Compress whose wrote_seek_table is not set runs the
\* codec's flush (end_stream) as part of the drop.
C15_DropFinalizes ==
    [][CompressDropped /\ ~co.wrote_seek_table => FlushCalled]_vars

\* ------------------------------------------ both adapters: properties
\* C11: when the upstream is not ready, poll_next of Compress and of
\* UploadParts returns Pending at that point: the codec is not called, nothing
\* is emitted, the struct (finished flag, accumulator) and the codec session
\* keep what earlier pulls of the same demand gave them; and the upstream is
\* polled only at the head of the loop, when no chunk is being processed.
C11_PendingSuspends ==
    /\ [][CoUpstreamAnswers("Pending") =>
            /\ co_ret' = Pending
            /\ co_pc' = "idle"
            /\ co' = co
            /\ co_cstream' = co_cstream
            /\ co_items' = co_items]_vars
    /\ [][UpstreamAnswers("Pending") =>
            /\ up_ret' = Pending
            /\ up_pc' = "idle"
            /\ up' = up
            /\ up_parts' = up_parts]_vars
    /\ [][co_stream' # co_stream =>
            /\ co_pc = "loop"
            /\ co_local = NoLocal
            /\ co_stream'.polls = co_stream.polls + 1
            /\ co_cstream' = co_cstream]_vars
    /\ [][up_stream' # up_stream =>
            /\ up_pc = "loop"
            /\ up_stream'.polls = up_stream.polls + 1]_vars

\* Compress returned Pending in a demand whose earlier pull fed the codec.
C11_Witness ==
    /\ co_ret = Pending
    /\ co_stream.last = Pending
    /\ co_calls = 1
    /\ co_cstream.compress_calls >= 1
    /\ co_items = <<>>
    /\ ~co.wrote_seek_table

\* -------------------------------------------- SeekableDecompress: properties
\* The step is SeekableDecompress::new returning.
NewReturned == de_pc = "new" /\ de_pc' # "new"

\* C16: for an object the codec opens, new returns NoFrames exactly when the
\* object has no frame; otherwise FrameTooLarge when the size of the last
\* frame does not fit u64; otherwise DataTooLarge when the last frame's offset
\* plus its size exceeds u64::MAX; otherwise the struct with decompressed_size
\* the sum of the two and decompressed_position 0.
C16_New ==
    [][NewReturned /\ de_seekable.init_ok =>
         LET n == de_seekable.num_frames
             start == de_seekable.last_frame_start
             size == de_seekable.last_frame_size
             res == de_ret'.res
         IN  /\ de_ret'.op = "new"
             /\ res = Err("NoFrames") <=> n = 0
             /\ n > 0 /\ size > U64Max => res = Err("FrameTooLarge")
             /\ n > 0 /\ size <= U64Max /\ start + size > U64Max =>
                    res = Err("DataTooLarge")
             /\ n > 0 /\ size <= U64Max /\ start + size <= U64Max =>
                    /\ res = Ok([decompressed_size |-> start + size,
                                 decompressed_position |-> 0])
                    /\ de' = res.val
                    /\ de_pc' = "idle"
             /\ ~res.ok => de_pc' = "failed"]_vars

\* new has succeeded on an object whose last frame is neither empty nor the
\* first byte of the data.
C16_Witness ==
    /\ de_ret.op = "new"
    /\ de_ret.res.ok
    /\ de_seekable.last_frame_start > 0
    /\ de_seekable.last_frame_size > 0
    /\ de.decompressed_size = de_seekable.last_frame_start + de_seekable.last_frame_size
    /\ de.decompressed_position = 0

\* The step is a call of seek, which returns in the same step.
SeekReturned == de_pc = "idle" /\ de_pc' = "idle" /\ de_ret'.op = "seek"

\* The position a SeekFrom asks for, as an integer without bounds.
SeekTarget(this, pos) ==
    CASE pos.tag = "Start" -> pos.pos
      [] pos.tag = "End" -> this.decompressed_size + pos.pos
      [] pos.tag = "Current" -> this.decompressed_position + pos.pos

\* C17: seek(Start(p)) asks for p, seek(End(k)) for decompressed_size + k and
\* seek(Current(k)) for decompressed_position + k, the sums taken in the
\* integers, for every i64 k.  When the position asked for is in 0..u64::MAX
\* seek sets the cursor to it and returns it; otherwise seek returns the
\* invalid-seek error and the cursor is unchanged.
C17_Seek ==
    [][SeekReturned =>
         LET target == SeekTarget(de, de_ret'.arg)
         IN  /\ de'.decompressed_size = de.decompressed_size
             /\ IF 0 <= target /\ target <= U64Max
                THEN /\ de'.decompressed_position = target
                     /\ de_ret'.res = Ok(target)
                ELSE /\ de'.decompressed_position = de.decompressed_position
                     /\ de_ret'.res = Err("InvalidInput")]_vars

\* seek(End(i64::MIN)) has succeeded and left the cursor -i64::MIN bytes
\* before the end.
C17_Witness ==
    /\ de_ret.op = "seek"
    /\ de_ret.arg = [tag |-> "End", pos |-> I64Min]
    /\ de_ret.res = Ok(de.decompressed_size + I64Min)
    /\ de.decompressed_position = de.decompressed_size + I64Min

\* C18: a call of seek returns without a seekable.decompress call and without
\* touching the codec's object or the locals of read; only the cursor may
\* change.  A position past decompressed_size (and within u64) is accepted:
\* seek sets the cursor to it and returns it.
C18_SeekBookkeeping ==
    [][SeekReturned =>
         LET target == SeekTarget(de, de_ret'.arg)
         IN  /\ de_seekable' = de_seekable
             /\ de_local' = de_local
             /\ de'.decompressed_size = de.decompressed_size
             /\ de.decompressed_size < target /\ target <= U64Max =>
                    /\ de_ret'.res = Ok(target)
                    /\ de'.decompressed_position = target]_vars

\* seek has returned a position past the end of the data, and the cursor is
\* there.
C18_Witness ==
    /\ de_pc = "idle"
    /\ de_ret.op = "seek"
    /\ de_ret.res.ok
    /\ de_ret.res.val > de.decompressed_size
    /\ de.decompressed_position = de_ret.res.val

\* The step is a call of read: it gets to its seekable.decompress call, or
\* returns before it.
ReadCalled ==
    /\ de_pc = "idle"
    /\ \/ de_pc' = "decompress"
       \/ de_pc' = "idle" /\ de_ret'.op = "read"

\* C19: a read called with the cursor at or past decompressed_size returns
\* Ok(0) before the seekable.decompress call and leaves the struct as it was,
\* whatever the length of the buffer.
C19_ReadAtEnd ==
    [][ReadCalled /\ de.decompressed_position >= de.decompressed_size =>
         /\ de_pc' = "idle"
         /\ de_ret'.res = Ok(0)
         /\ de' = de
         /\ de_local' = de_local
         /\ de_seekable' = de_seekable]_vars

\* A read with the longest buffer has returned Ok(0) with the cursor past the
\* end of data that is not empty.
C19_Witness ==
    /\ de_pc = "idle"
    /\ de_ret.op = "read"
    /\ de_ret.arg = MaxBuf
    /\ de_ret.res = Ok(0)
    /\ de.decompressed_size > 0
    /\ de.decompressed_position > de.decompressed_size

\* The smaller of two numbers.
Min(a, b) == IF a <= b THEN a ELSE b

\* The step is a read returning after its seekable.decompress call.
DecompressReturned == de_pc = "decompress" /\ de_pc' = "idle"

\* C20: read reaches seekable.decompress only from a call of read, and then
\* the offset handed to the codec is the cursor and the slice handed to it has
\* min(buf.len(), decompressed_size - decompressed_position) bytes, at least
\* one; when the call succeeds read returns the number of bytes the codec
\* wrote, which is at most the length of the slice, and the cursor has moved
\* forward by that number.
C20_ReadCall ==
    /\ [][de_pc' = "decompress" /\ de_pc # "decompress" =>
            ReadCalled /\ de' = de]_vars
    /\ [](de_pc = "decompress" =>
            /\ de_local.offset = de.decompressed_position
            /\ de_local.len = Min(de_local.buf_len,
                                  de.decompressed_size - de.decompressed_position)
            /\ de_local.len >= 1)
    /\ [][DecompressReturned /\ de_ret'.res.ok =>
            /\ de_ret'.op = "read"
            /\ de_ret'.res.val \in 0..de_local.len
            /\ de'.decompressed_position
                   = de.decompressed_position + de_ret'.res.val
            /\ de'.decompressed_size = de.decompressed_size]_vars

\* A read with the longest buffer, called one byte before the end of the
\* data, has returned 1 and left the cursor at the end.
C20_Witness ==
    /\ de_pc = "idle"
    /\ de_ret.op = "read"
    /\ de_ret.arg = MaxBuf
    /\ de_ret.res = Ok(1)
    /\ de.decompressed_size >= 2
    /\ de.decompressed_position = de.decompressed_size

\* A seek(Start(o)) with o < decompressed_size returned last.
SoughtStart ==
    /\ de_ret.op = "seek"
    /\ de_ret.arg.tag = "Start"
    /\ de_ret.arg.pos < de.decompressed_size

\* C22: after seek(Start(o)) with o < decompressed_size, whatever was read or
\* sought before, the read called next with a buffer that is not empty hands
\* the codec the offset o, and when it returns Ok(n) the buffer holds the n
\* bytes of the decompressed data at offsets o, o + 1, ..., o + n - 1.
C22_SeekThenRead ==
    /\ [][SoughtStart /\ ReadCalled =>
            \/ /\ de_ret'.op = "read"
               /\ de_ret'.arg = 0
               /\ de_ret'.res = Ok(0)
            \/ /\ de_pc' = "decompress"
               /\ de_local'.buf_len > 0
               /\ de_local'.offset = de_ret.arg.pos
               /\ de_local'.len = Min(de_local'.buf_len,
                                      de.decompressed_size - de_ret.arg.pos)]_vars
    /\ [][SoughtStart /\ DecompressReturned /\ de_ret'.res.ok =>
            LET o == de_ret.arg.pos
                n == de_ret'.res.val
            IN  /\ de_ret'.prev = "seek"
                /\ Len(de_ret'.bytes) = n
                /\ \A i \in 1..n : de_ret'.bytes[i] = o + i - 1
                /\ o + n <= de.decompressed_size
                /\ de'.decompressed_position = o + n]_vars

\* After seek(Start(1)) the read called next has returned two bytes: the
\* bytes of the data at offsets 1 and 2.
C22_Witness ==
    /\ de_pc = "idle"
    /\ de_ret.op = "read"
    /\ de_ret.prev = "seek"
    /\ de_ret.res = Ok(2)
    /\ de_ret.bytes = <<1, 2>>
    /\ de.decompressed_position = 3
    /\ de.decompressed_size > 3

\* The loop of reads has ended with a read that returned 0.
ReadLoop_returned_0 ==
    de_pc = "idle" /\ de_ret.op = "read" /\ de_ret.res = Ok(0)

S3ReadCalled ==
    /\ s3_pc = "idle"
    /\ \/ s3_pc' \in {"fetch", "body"}
       \/ s3_pc' = "idle" /\ s3_ret' # s3_ret /\ s3_ret'.op = "read"

\* C23: a read called with position >= length returns Ok(0) in the same
\* step: no get_object is issued, the open body is not read and nothing
\* changes; and every get_object a read has in flight asks for a range that
\* starts before length.
C23_ReadAtEnd ==
    /\ [][S3ReadCalled /\ s3.position >= s3.length =>
            /\ s3_pc' = "idle"
            /\ s3_ret'.op = "read"
            /\ s3_ret'.res = Ok(0)
            /\ s3_ret'.fetches = 0
            /\ s3' = s3
            /\ s3_local' = s3_local]_vars
    /\ [](s3_pc = "fetch" =>
            /\ s3_local.range = s3.req.range
            /\ s3_local.range.some
            /\ RangeStart(s3_local.range) < s3.length)

\* The object has been read to its end, its body is still open, and a
\* further read has returned Ok(0) without a fetch.
C23_Witness ==
    /\ s3_pc = "idle"
    /\ s3_ret.op = "read"
    /\ s3_ret.res = Ok(0)
    /\ s3_ret.fetches = 0
    /\ s3.length > 0
    /\ s3.position >= s3.length
    /\ s3.body.some

\* The step is a call of seek of SeekableS3Object, which returns in the same
\* step.
S3SeekReturned ==
    /\ s3_pc = "idle"
    /\ s3_pc' = "idle"
    /\ s3_ret'.op = "seek"
    /\ s3'.read_timeout = s3.read_timeout

\* C24: a seek that returns the position the cursor is at already leaves the
\* struct as it was, the open body included, and issues no get_object; a read
\* called with a body open and position < length goes to read_body on that
\* body without a get_object, and returns having issued none.
C24_SeekSamePosition ==
    /\ [][S3SeekReturned /\ s3_ret'.res.ok /\ s3_ret'.res.val = s3.position =>
            /\ s3' = s3
            /\ s3_local' = s3_local
            /\ s3_ret'.fetches = 0]_vars
    /\ [][S3ReadCalled /\ s3.body.some /\ s3.position < s3.length =>
            /\ s3_pc' = "body"
            /\ s3' = s3
            /\ s3_local'.fetches = 0]_vars
    /\ [][s3_pc = "body" /\ s3_pc' = "idle" =>
            /\ s3_ret'.op = "read"
            /\ s3_ret'.fetches = s3_local.fetches]_vars

\* After bytes were read, a seek returned the position the cursor was at; the
\* read that follows is in read_body on the body that was open, and has issued
\* no get_object.
C24_Witness ==
    /\ s3_pc = "body"
    /\ s3_ret.op = "seek"
    /\ s3_ret.res = Ok(s3.position)
    /\ s3.position > 0
    /\ s3.body = Some([at |-> s3.position])
    /\ s3_local.fetches = 0

\* C25 as stated: a seek that moves the cursor discards the body and issues
\* no get_object, and the read called next issues one.
C25_Original ==
    /\ [][S3SeekReturned /\ s3_ret'.res.ok /\ s3_ret'.res.val # s3.position =>
            /\ s3'.position = s3_ret'.res.val
            /\ s3'.body = None
            /\ s3_local' = s3_local
            /\ s3_ret'.fetches = 0]_vars
    /\ [][S3ReadCalled /\ s3_ret.op = "seek" /\ s3_ret.moved =>
            /\ s3_pc' = "fetch"
            /\ s3_local'.fetches = 1]_vars

\* C25: a seek that moves the cursor discards the body and issues no
\* get_object (no seek issues one).  The read called next issues one
\* get_object, for the range that starts at the new position, when the new
\* position is before length; when it is at or past length the read returns
\* Ok(0) and issues none.  No call issues more than one.
C25_Amended ==
    /\ [][S3SeekReturned =>
            /\ s3_local' = s3_local
            /\ s3_ret'.fetches = 0
            /\ s3_ret'.res.ok /\ s3_ret'.res.val # s3.position =>
                   /\ s3_ret'.moved
                   /\ s3'.position = s3_ret'.res.val
                   /\ s3'.body = None]_vars
    /\ [][S3ReadCalled /\ s3_ret.op = "seek" /\ s3_ret.moved =>
            IF s3.position < s3.length
            THEN /\ s3_pc' = "fetch"
                 /\ s3_local'.fetches = 1
                 /\ s3_local'.range = Some(FormatRange(s3.position))
            ELSE /\ s3_pc' = "idle"
                 /\ s3_ret'.op = "read"
                 /\ s3_ret'.res = Ok(0)
                 /\ s3_ret'.fetches = 0]_vars
    /\ [](s3_local.fetches <= 1)

\* A seek has moved the cursor to a position inside the object, and the read
\* that follows has issued its one get_object.
C25_Witness ==
    /\ s3_pc = "fetch"
    /\ s3_ret.op = "seek"
    /\ s3_ret.moved
    /\ s3.position > 0
    /\ s3.body = None
    /\ s3_local.fetches = 1

\* The step is SeekableS3Object::new returning.
S3NewReturned == s3_pc = "new_fetch" /\ s3_pc' # "new_fetch"

\* C26: new issues one get_object, for the caller's request without a range,
\* and none after it.  When the get_object yields an object, new returns a
\* validation error if its content length is missing or negative; otherwise it
\* returns the struct with length the content length, position 0, and the body
\* of the object, if it has one, open at offset 0.
C26_New ==
    /\ [][s3_pc = "new" /\ s3_pc' # "new" =>
            /\ s3_pc' = "new_fetch"
            /\ s3'.req.range = None
            /\ s3_local'.range = None
            /\ s3_local'.fetches = 1]_vars
    /\ [][S3NewReturned =>
            LET got == s3_ret'.got
                res == s3_ret'.res
            IN  /\ s3_ret'.op = "new"
                /\ s3_ret'.fetches = 1
                /\ s3_pc' = IF res.ok THEN "idle" ELSE "failed"
                /\ ~got.ok => res = got
                /\ got.ok =>
                     LET content_length == got.val.content_length
                     IN  IF ~content_length.some \/ content_length.val < 0
                         THEN res = Err("Validation")
                         ELSE /\ res.ok
                              /\ s3' = res.val
                              /\ s3'.length = content_length.val
                              /\ s3'.position = 0
                              /\ s3'.body = IF got.val.body THEN Some([at |-> 0])
                                            ELSE None
                              /\ s3'.req.range = None]_vars

\* new has returned a SeekableS3Object of an object that is not empty, with
\* the body of its get_object open at offset 0.
C26_Witness ==
    /\ s3_pc = "idle"
    /\ s3_ret.op = "new"
    /\ s3_ret.res.ok
    /\ s3_ret.fetches = 1
    /\ s3.length > 0
    /\ s3.position = 0
    /\ s3.body = Some([at |-> 0])

\* C27: a read with no open body and position < length issues one get_object
\* whose range is "bytes=", the decimal digits of position, "-"; the body it
\* returns is stored as the body at that offset and read, and a read of n bytes
\* moves position on by n.  A read with a body open and position < length
\* reads that body and issues no get_object.
C27_ReadFetches ==
    /\ [][S3ReadCalled /\ ~s3.body.some /\ s3.position < s3.length =>
            LET range == s3_local'.range
            IN  /\ s3_pc' = "fetch"
                /\ s3_local'.fetches = 1
                /\ s3'.req.range = range
                /\ range.some
                /\ range.val[1] = "bytes="
                /\ range.val[Len(range.val)] = "-"
                /\ SubSeq(range.val, 2, Len(range.val) - 1) = Decimal(s3.position)
                /\ RangeStart(range) = s3.position
                /\ s3'.position = s3.position]_vars
    /\ [][s3_pc = "fetch" /\ s3_pc' = "body" =>
            /\ s3'.body = Some([at |-> s3.position])
            /\ s3'.position = s3.position
            /\ s3_local'.fetches = s3_local.fetches
            /\ s3_local'.buf_len = s3_local.buf_len]_vars
    /\ [][S3ReadCalled /\ s3.body.some /\ s3.position < s3.length =>
            /\ s3_pc' = "body"
            /\ s3_local'.fetches = 0
            /\ s3' = s3]_vars
    /\ [][s3_pc = "body" /\ s3_pc' # "body" =>
            /\ s3_pc' = "idle"
            /\ s3_ret'.op = "read"
            /\ s3_ret'.fetches = s3_local.fetches
            /\ s3_ret'.res.ok =>
                 /\ s3_ret'.res.val <= s3_local.buf_len
                 /\ s3'.position = s3.position + s3_ret'.res.val
                 /\ s3'.body = Some([at |-> s3'.position])
            /\ ~s3_ret'.res.ok => s3' = s3]_vars

\* A read has fetched the object from an offset past 0, read bytes of the body
\* returned and moved on by as many.
C27_Witness ==
    /\ s3_pc = "idle"
    /\ s3_ret.op = "read"
    /\ s3_ret.fetches = 1
    /\ s3_ret.res.ok
    /\ s3_ret.res.val > 0
    /\ s3.position > s3_ret.res.val
    /\ s3.body = Some([at |-> s3.position])

\* The step is SeekableS3Object::read returning after it awaited its
\* get_object or its body.read.
S3ReadReturned == s3_pc \in {"fetch", "body"} /\ s3_pc' = "idle"

\* C28: with a read timeout set, a read returns the error TimedOut exactly
\* when its get_object or its body.read completes after the deadline, and goes
\* on to read the body only of a get_object that completed in time; with no
\* read timeout set, no read returns TimedOut.
C28_ReadTimeout ==
    /\ [][S3ReadReturned =>
            /\ s3_ret'.op = "read"
            /\ IF s3.read_timeout.some
               THEN s3_ret'.res = Err("TimedOut") <=> s3_ret'.late
               ELSE s3_ret'.res # Err("TimedOut")]_vars
    /\ [][s3_pc = "fetch" /\ s3_pc' = "body" /\ s3.read_timeout.some =>
            ~s3_local'.late]_vars
    /\ [][S3ReadCalled /\ s3_pc' = "idle" => s3_ret'.res = Ok(0)]_vars

\* With a read timeout set, a read whose get_object completed in time returned
\* TimedOut for its body.read.
C28_Witness ==
    /\ s3_pc = "idle"
    /\ s3_ret.op = "read"
    /\ s3.read_timeout.some
    /\ s3_ret.late
    /\ s3_ret.fetches = 1
    /\ s3.body.some
    /\ s3_ret.res = Err("TimedOut")

\* C29: a get_object is issued only as a call of new or of read begins, one
\* for the call; a call whose get_object or body.read fails returns that error
\* and ends, leaving the struct as it was when the operation was awaited, with
\* no call running; after new has failed nothing more happens.
C29_NoRetry ==
    /\ [](s3_local.fetches <= 1)
    /\ [][s3_local'.fetches # s3_local.fetches =>
            \/ /\ s3_pc \in {"new", "idle"}
               /\ s3_pc' \in {"new_fetch", "fetch"}
               /\ s3_local.fetches = 0
               /\ s3_local'.fetches = 1
            \/ /\ s3_pc \in {"new_fetch", "fetch", "body"}
               /\ s3_pc' \in {"idle", "failed"}
               /\ s3_local' = NoCall
               /\ s3_ret'.fetches = 1]_vars
    /\ [][S3ReadReturned /\ ~s3_ret'.res.ok =>
            /\ s3' = s3
            /\ s3_local' = NoCall
            /\ s3_ret'.fetches = s3_local.fetches]_vars
    /\ [][S3NewReturned /\ ~s3_ret'.res.ok =>
            /\ s3' = s3
            /\ s3_pc' = "failed"
            /\ s3_local' = NoCall
            /\ s3_ret'.fetches = 1]_vars
    /\ [][s3_pc # "failed"]_vars

\* A read's get_object failed: the read returned the error after its one
\* get_object, no call is running and no body is open.
C29_Witness ==
    /\ s3_pc = "idle"
    /\ s3_ret.op = "read"
    /\ s3_ret.res = Err("Other")
    /\ s3_ret.fetches = 1
    /\ s3_local = NoCall
    /\ s3.position < s3.length
    /\ ~s3.body.some

\* C30: in every state, an open body yields next the byte of the object at
\* offset position.
C30_BodyAtPosition == s3.body.some => s3.body.val.at = s3.position

\* After bytes were read and the cursor stood past 0, a read of the open body
\* timed out: the body is still open, at the cursor.
C30_Witness ==
    /\ s3_pc = "idle"
    /\ s3_ret.op = "read"
    /\ s3_ret.res = Err("TimedOut")
    /\ s3_ret.fetches = 0
    /\ s3.body.some
    /\ s3.position > 0
    /\ s3.body.val.at = s3.position

\* C31: a read that returns an error leaves position and body as they were
\* when the failing operation was awaited, so a body whose read failed or
\* timed out stays open, and the cursor is still before length; a seek called
\* next that returns the same position keeps that body, and the read called
\* after it reads that body and issues no get_object.
C31_FailedReadKeepsBody ==
    /\ [][S3ReadReturned /\ ~s3_ret'.res.ok =>
            /\ s3'.position = s3.position
            /\ s3'.body = s3.body
            /\ s3.position < s3.length
            /\ s3_pc = "body" => s3'.body.some /\ s3_ret'.fetches = s3_local.fetches
            /\ s3_pc = "fetch" => ~s3'.body.some]_vars
    /\ [][/\ S3SeekReturned
          /\ s3_ret.op = "read" /\ ~s3_ret.res.ok
          /\ s3_ret'.res = Ok(s3.position)
          => /\ s3_ret'.after_failed_read
             /\ ~s3_ret'.moved
             /\ s3'.body = s3.body
             /\ s3'.position = s3.position]_vars
    /\ [][/\ S3ReadCalled
          /\ s3_ret.op = "seek" /\ s3_ret.after_failed_read /\ ~s3_ret.moved
          /\ s3.body.some
          => /\ s3_pc' = "body"
             /\ s3_local'.fetches = 0
             /\ s3' = s3]_vars

\* A read failed with its body open, the seek called next returned the same
\* position, and the read called after it is reading the same body, at the
\* cursor, with no get_object issued.
C31_Witness ==
    /\ s3_pc = "body"
    /\ s3_ret.op = "seek"
    /\ s3_ret.after_failed_read
    /\ ~s3_ret.moved
    /\ s3_local.fetches = 0
    /\ s3.body = Some([at |-> s3.position])
    /\ s3.position > 0

\* ----------------------------------------- UploadParts: bytes and sizes
\* The bodies of the parts in order, end to end.
RECURSIVE Bodies(_)
Bodies(parts) == IF parts = <<>> THEN <<>> ELSE Body(Head(parts)) \o Bodies(Tail(parts))

\* C33: in every state the bodies of the emitted parts followed by the
\* accumulator are, end to end, the bytes of the chunks pulled so far in the
\* order they were pulled; once finished the accumulator is empty and the
\* bodies alone are those bytes.
C33_BytesConserved ==
    /\ Bodies(up_parts) \o up.input = Chunk(0, up_stream.sent)
    /\ up.finished => /\ up.input = <<>>
                      /\ Bodies(up_parts) = Chunk(0, up_stream.sent)

\* The stream is finished with all the bytes it was sent, cut at four places
\* or more, in two parts or more, the last one short.
C33_Witness ==
    /\ up.finished
    /\ up.minimum_part_size = MaxMin
    /\ Len(up_parts) >= 2
    /\ Cardinality(up_stream.cuts) >= 4
    /\ up_stream.sent = MaxBytes
    /\ Len(Body(up_parts[Len(up_parts)])) < up.minimum_part_size
    /\ Bodies(up_parts) = Chunk(0, MaxBytes)

\* C34: with minimum_part_size >= 1, between calls of poll_next the
\* accumulator is shorter than minimum_part_size and no emitted part has an
\* empty body; a part emitted for a chunk has at least minimum_part_size bytes
\* and fewer than minimum_part_size plus the length of that chunk.
C34_PendingBelowMinimum ==
    /\ [](up.minimum_part_size >= 1 /\ up_pc = "idle" =>
            Len(up.input) < up.minimum_part_size)
    /\ [](up.minimum_part_size >= 1 =>
            \A k \in 1..Len(up_parts) : Body(up_parts[k]) # <<>>)
    /\ [][/\ up.minimum_part_size >= 1
          /\ up_parts' # up_parts
          /\ up_stream'.last.tag = "Ok"
          => /\ Len(up.input) < up.minimum_part_size
             /\ Body(up_parts'[Len(up_parts')]) = up.input \o up_stream'.last.val
             /\ Len(Body(up_parts'[Len(up_parts')])) >= up.minimum_part_size
             /\ Len(Body(up_parts'[Len(up_parts')]))
                  < up.minimum_part_size + Len(up_stream'.last.val)]_vars

\* A call has returned Pending with a byte in the accumulator, after a part
\* longer than the minimum of two bytes had been emitted.
C34_Witness ==
    /\ up_pc = "idle"
    /\ up_ret = Pending
    /\ up.minimum_part_size = 2
    /\ Len(up.input) = 1
    /\ Len(up_parts) >= 1
    /\ Len(Body(up_parts[1])) > 2

\* ------------------------------------- Compress without codec errors: properties
\* The items in order, end to end.
RECURSIVE Concat(_)
Concat(items) == IF items = <<>> THEN <<>> ELSE Head(items) \o Concat(Tail(items))

\* C35: with no codec error, the emitted items followed by the output held
\* for the running call are, end to end, the bytes the codec has written, in
\* call order, and no compress call follows a flush call; an item emitted for
\* a chunk is the output of the codec calls made for that chunk, whose
\* accumulator began empty; the input handed to the codec is what is left of
\* the chunk pulled last, all bytes sent before it having been consumed, and
\* the upstream is polled only when nothing of a chunk is left.
C35_OutputConserved ==
    /\ [](Concat(co_items) \o co_local.compressed_bytes = Chunk(0, co_cstream.out))
    /\ [][co_cstream'.compress_calls # co_cstream.compress_calls =>
            co_cstream.end_stream_calls = 0]_vars
    /\ [][co_pc' = "compress_input" /\ co_pc # "compress_input" =>
            /\ co_local'.compressed_bytes = <<>>
            /\ co_stream'.last = ReadyOk(co_local'.input)]_vars
    /\ [][co_pc = "compress_input" /\ co_pc' = "idle" =>
            /\ co_ret'.tag = "Ok"
            /\ co_items' = Append(co_items, co_ret'.val)
            /\ co_ret'.val = co_local.compressed_bytes
                               \o Chunk(co_cstream.out,
                                        co_cstream'.out - co_cstream.out)]_vars
    /\ [](co_pc = "compress_input" =>
            /\ co_local.input # <<>>
            /\ co_local.input = Chunk(co_stream.sent - Len(co_local.input),
                                      Len(co_local.input)))
    /\ [][co_stream' # co_stream => co_pc = "loop" /\ co_local = NoLocal]_vars

\* The stream is finished after two items: the first holds the output of two
\* compress calls for one chunk, the second the output of the flush.
C35_Witness ==
    /\ co.wrote_seek_table
    /\ co_pc = "idle"
    /\ Len(co_items) = 2
    /\ Len(co_items[1]) > OutSize
    /\ co_cstream.compress_calls = 2
    /\ co_cstream.end_stream_calls = 2
    /\ Concat(co_items) = Chunk(0, co_cstream.out)

\* C37: every call of poll_next returns, and the consumer comes to be given
\* Ready(None) with wrote_seek_table set.
C37_ComesToEnd ==
    /\ (co_pc # "idle") ~> (co_pc = "idle")
    /\ <>(co_pc = "idle" /\ co_ret = ReadyNone /\ co.wrote_seek_table)

\* After a suspension and an item for a chunk that took two compress calls, the
\* flush was emitted as an item and the demand after it was given Ready(None).
C37_Witness ==
    /\ co_pc = "idle"
    /\ co_ret = ReadyNone
    /\ co.wrote_seek_table
    /\ Len(co_items) = 2
    /\ co_stream.polls >= 2
    /\ co_cstream.compress_calls = 2
    /\ co_cstream.end_stream_calls >= 2
    /\ co_calls >= 4

\* ------------------------------------------------- both readers: properties
\* C38: once new has returned, no step changes decompressed_size of the
\* SeekableDecompress nor length of the SeekableS3Object, whatever is read or
\* sought, whatever the read timeout is set to and whatever fails; and a
\* seek of the SeekableS3Object that returns an error leaves its position and
\* its body as they were.
C38_SizesFixed ==
    /\ [][(de_pc \in {"idle", "decompress"})
            => de'.decompressed_size = de.decompressed_size]_vars
    /\ [][(s3_pc \in {"idle", "fetch", "body"})
            => s3'.length = s3.length]_vars
    /\ [][S3SeekReturned /\ ~s3_ret'.res.ok =>
            /\ s3'.position = s3.position
            /\ s3'.body = s3.body
            /\ s3' = s3]_vars

\* The SeekableDecompress of one byte was read to its end and refused a seek;
\* the SeekableS3Object, of an object that is not empty, read bytes and then
\* refused a seek with its body open at the cursor.
C38_Witness ==
    /\ de_pc = "idle"
    /\ de.decompressed_size = 1
    /\ de.decompressed_position = 1
    /\ de_ret.op = "seek"
    /\ ~de_ret.res.ok
    /\ s3_pc = "idle"
    /\ s3_ret.op = "seek"
    /\ ~s3_ret.res.ok
    /\ s3.length > 0
    /\ s3.position > 0
    /\ s3.body = Some([at |-> s3.position])

\* ------------------------------------- both adapters: what the items depend on
\* The offsets of the upstream at which a part ends, for chunks that ended at
\* the offsets `cuts`, the last part having ended at `from`: a part ends at the
\* first chunk end that lies `min` bytes or more after the previous part
\* (accept_input, for a minimum part size of 1 or more, where an empty chunk
\* changes nothing).
RECURSIVE ExpectedEnds(_, _, _)
ExpectedEnds(cuts, from, min) ==
    LET reach == {c \in cuts : c - from >= min}
    IN  IF reach = {}
        THEN <<>>
        ELSE LET c == CHOOSE x \in reach : \A y \in reach : x <= y
             IN  <<c>> \o ExpectedEnds(cuts, c, min)

\* The part ends ExpectedEnds gives, and the end of the last, short part that
\* end_stream makes of what is left once the upstream has ended.
ExpectedPartEnds(stream, this) ==
    LET ends == ExpectedEnds(stream.cuts, 0, this.minimum_part_size)
        last == IF ends = <<>> THEN 0 ELSE ends[Len(ends)]
    IN  IF this.finished /\ stream.sent > last THEN Append(ends, stream.sent) ELSE ends

\* What of UploadParts and of Compress the upstream items (and, for Compress,
\* the answers of the codec) decide: everything but the count of polls and of
\* poll_next calls, the answer polled last and the value returned last.
UpDecided == <<up, up_parts, up_stream.sent, up_stream.cuts, up_stream.ended>>
CoDecided == <<co, co_cstream, co_local, co_items,
               co_stream.sent, co_stream.cuts, co_stream.ended>>

\* C32: the items emitted depend on the upstream items and on the threshold,
\* not on where the upstream was not ready nor on how often poll_next was
\* called.  For UploadParts, in every state the parts emitted are numbered
\* 1, 2, ... and their bodies are the upstream bytes cut at the offsets that
\* the ends of the upstream chunks and the minimum part size give
\* (ExpectedPartEnds), the accumulator holding the bytes after the last cut.
\* For both adapters, a poll_next call and a poll of the upstream answered
\* Pending change nothing of what decides the items; Compress emits an item
\* only on an answer of the codec, the item being all that the codec wrote
\* for the chunk pulled last (or for the flush), so that there is at most one
\* item per non-empty chunk and one for the flush.
C32_ItemsDecidedByUpstream ==
    /\ [](LET ends == ExpectedPartEnds(up_stream, up)
              start(k) == IF k = 1 THEN 0 ELSE ends[k - 1]
              last == IF ends = <<>> THEN 0 ELSE ends[Len(ends)]
          IN  /\ Len(up_parts) = Len(ends)
              /\ \A k \in 1..Len(up_parts) :
                    /\ up_parts[k].part_number = k
                    /\ up_parts[k].body = Some(Chunk(start(k), ends[k] - start(k)))
              /\ up.input = Chunk(last, up_stream.sent - last))
    /\ [][UploadPartsCalled \/ UpstreamAnswers("Pending") => UpDecided' = UpDecided]_vars
    /\ [][CompressCalled \/ CoUpstreamAnswers("Pending") => CoDecided' = CoDecided]_vars
    /\ [][co_items' # co_items =>
            /\ co_cstream' # co_cstream
            /\ co_stream' = co_stream
            /\ co_items' = Append(co_items, co_local.compressed_bytes \o CodecWrote)]_vars
    /\ [](Len(co_items) <= Cardinality(co_stream.cuts \ {0})
                             + (IF co.wrote_seek_table THEN 1 ELSE 0))

\* UploadParts has emitted two parts and finished, the upstream having been
\* not ready twice, once with bytes in the accumulator; the first part is made
\* of more than one chunk.
C32_Witness ==
    /\ up.finished
    /\ Len(up_parts) = 2
    /\ up_stream.polls >= Cardinality(up_stream.cuts) + 3
    /\ up_stream.last = ReadyNone
    /\ Len(Body(up_parts[1])) > up.minimum_part_size
    /\ up_calls >= 4

====
